---- MODULE Spec2Model ----
(***************************************************************************)
(* Kasane-TypeScript: the conversion layer between the typed client form   *)
(* (DimensionRange, SpaceTimeId, Range, Filter) and the engine's wire      *)
(* form, modelled from utils/conversions.ts and commands/static-methods.ts,*)
(* and the gateway (kasane.ts and commands/*.ts): Kasane.init with its     *)
(* version check, executeCommand, and the public operations built on it.   *)
(*                                                                         *)
(* JavaScript values are modelled as tagged records so that typeof, the    *)
(* `in` operator, truthiness and === can be computed as the code computes  *)
(* them:                                                                   *)
(*   number    [t |-> "number",  n |-> 3]                                  *)
(*   string    [t |-> "string",  s |-> "-"]                                *)
(*   boolean   [t |-> "boolean", b |-> TRUE]                               *)
(*   undefined [t |-> "undefined"]                                         *)
(*   null      [t |-> "null"]                                              *)
(*   NaN       [t |-> "nan"]                                               *)
(*   array     [t |-> "array",   a |-> <<...>>]                            *)
(*   object    [t |-> "object",  o |-> [key |-> value, ...]]               *)
(* A call that throws is modelled by the value                             *)
(*   [t |-> "throw", msg |-> "..."]                                        *)
(* which propagates through every caller, as an exception does.            *)
(***************************************************************************)
EXTENDS Integers, Sequences, FiniteSets, TLC

VARIABLES
    kind,   \* what the caller holds: which entry point the value is meant for
    fn,     \* the conversion function applied last ("none" before any call)
    arg,    \* the value handed to the conversion layer by its caller
    wire,   \* the wire value: produced by an encoder, or handed in by the engine
    out,    \* the value produced by a decoder from `wire`, or what a gateway
            \* operation returned or threw
    gw,     \* the gateway: "none", "loaded" (engine module loaded), "ready"
    debug,  \* the gateway's debug flag
    sent,   \* the request texts the last operation handed to the engine
    reply,  \* the text the engine answered with
    log,    \* what the last operation wrote to the console
    firstSent, \* the first request text the engine received (undefined until then)
    prev    \* how the operation before the last ended: "none", "returned", "threw"

gwVars == <<gw, debug, sent, reply, log, firstSent, prev>>
vars == <<kind, fn, arg, wire, out, gw, debug, sent, reply, log, firstSent, prev>>

(***************************************************************************)
(* Bounds of the model.                                                    *)
(***************************************************************************)
\* numbers range over 0 .. MaxNum
MaxNum == 2
\* compact arrays have at most MaxLen elements
MaxLen == 3
\* range expressions nest at most MaxDepth combinators deep
MaxDepth == 2

(***************************************************************************)
(* JavaScript values.                                                      *)
(***************************************************************************)
Num(n) == [t |-> "number", n |-> n]
Str(s) == [t |-> "string", s |-> s]
Bool(b) == [t |-> "boolean", b |-> b]
Undef == [t |-> "undefined"]
Null == [t |-> "null"]
NaN == [t |-> "nan"]
Arr(a) == [t |-> "array", a |-> a]
Obj(o) == [t |-> "object", o |-> o]
EmptyObj == Obj(<<>>)
Throw(msg) == [t |-> "throw", msg |-> msg]

IsThrow(v) == v.t = "throw"
IsArray(v) == v.t = "array"
IsObject(v) == v.t = "object"
IsNumber(v) == v.t = "number"

\* `k in v` for an object v
In(k, v) == k \in DOMAIN v.o
\* v.k for an object v: undefined when the key is absent
Get(v, k) == IF k \in DOMAIN v.o THEN v.o[k] ELSE Undef
\* ToBoolean(v), as used by `v ? a : b` and `if (v)`
Truthy(v) ==
    CASE v.t = "undefined" -> FALSE
      [] v.t = "null" -> FALSE
      [] v.t = "nan" -> FALSE
      [] v.t = "number" -> v.n # 0
      [] v.t = "string" -> v.s # ""
      [] v.t = "boolean" -> v.b
      [] OTHER -> TRUE

Dash == Str("-")
AnyTag == Str("Any")

(***************************************************************************)
(* convertDimensionRange / convertFromWasmDimensionRange                   *)
(***************************************************************************)
\* convertDimensionRange with the two ends of an interval put in ascending order
convertDimensionRangeSorted(range) ==
    IF IsArray(range) /\ Len(range.a) = 1
    THEN IF range.a[1] = Dash THEN AnyTag ELSE Obj([Single |-> range.a[1]])
    ELSE IF IsArray(range) /\ Len(range.a) = 2
    THEN LET first == range.a[1]
             second == range.a[2]
         IN  IF first = Dash THEN Obj([BeforeUnLimitRange |-> second])
             ELSE IF second = Dash THEN Obj([AfterUnLimitRange |-> first])
             ELSE IF first.n <= second.n
             THEN Obj([LimitRange |-> Arr(<<first, second>>)])
             ELSE Obj([LimitRange |-> Arr(<<second, first>>)])
    ELSE Obj([Single |-> range])

convertDimensionRange(range) ==
    IF IsArray(range) /\ Len(range.a) = 1
    THEN IF range.a[1] = Dash THEN AnyTag ELSE Obj([Single |-> range.a[1]])
    ELSE IF IsArray(range) /\ Len(range.a) = 2
    THEN LET first == range.a[1]
             second == range.a[2]
         IN  IF first = Dash THEN Obj([BeforeUnLimitRange |-> second])
             ELSE IF second = Dash THEN Obj([AfterUnLimitRange |-> first])
             ELSE Obj([LimitRange |-> Arr(<<first, second>>)])
    ELSE Obj([Single |-> range])

\* convertFromWasmDimensionRange with the two half-bounded shapes exchanged
convertFromWasmDimensionRangeSwapped(wasmRange) ==
    IF wasmRange = AnyTag THEN Arr(<<Dash>>)
    ELSE IF IsObject(wasmRange) /\ In("Single", wasmRange)
    THEN Arr(<<wasmRange.o.Single>>)
    ELSE IF IsObject(wasmRange) /\ In("LimitRange", wasmRange)
    THEN wasmRange.o.LimitRange
    ELSE IF IsObject(wasmRange) /\ In("BeforeUnLimitRange", wasmRange)
    THEN Arr(<<wasmRange.o.BeforeUnLimitRange, Dash>>)
    ELSE IF IsObject(wasmRange) /\ In("AfterUnLimitRange", wasmRange)
    THEN Arr(<<Dash, wasmRange.o.AfterUnLimitRange>>)
    ELSE Arr(<<Dash>>)

\* convertFromWasmDimensionRange rejecting a value of no known wire shape
convertFromWasmDimensionRangeStrict(wasmRange) ==
    IF wasmRange = AnyTag THEN Arr(<<Dash>>)
    ELSE IF IsObject(wasmRange) /\ In("Single", wasmRange)
    THEN Arr(<<wasmRange.o.Single>>)
    ELSE IF IsObject(wasmRange) /\ In("LimitRange", wasmRange)
    THEN wasmRange.o.LimitRange
    ELSE IF IsObject(wasmRange) /\ In("BeforeUnLimitRange", wasmRange)
    THEN Arr(<<Dash, wasmRange.o.BeforeUnLimitRange>>)
    ELSE IF IsObject(wasmRange) /\ In("AfterUnLimitRange", wasmRange)
    THEN Arr(<<wasmRange.o.AfterUnLimitRange, Dash>>)
    ELSE Throw("Unknown dimension range")

convertFromWasmDimensionRange(wasmRange) ==
    IF wasmRange = AnyTag THEN Arr(<<Dash>>)
    ELSE IF IsObject(wasmRange) /\ In("Single", wasmRange)
    THEN Arr(<<wasmRange.o.Single>>)
    ELSE IF IsObject(wasmRange) /\ In("LimitRange", wasmRange)
    THEN wasmRange.o.LimitRange
    ELSE IF IsObject(wasmRange) /\ In("BeforeUnLimitRange", wasmRange)
    THEN Arr(<<Dash, wasmRange.o.BeforeUnLimitRange>>)
    ELSE IF IsObject(wasmRange) /\ In("AfterUnLimitRange", wasmRange)
    THEN Arr(<<wasmRange.o.AfterUnLimitRange, Dash>>)
    ELSE Arr(<<Dash>>)

(***************************************************************************)
(* convertSpaceTimeId / convertFromWasmSpaceTimeId                         *)
(***************************************************************************)
\* convertSpaceTimeId passing i through without its default
convertSpaceTimeIdNoDefaultI(id) ==
    Obj([z |-> Get(id, "z"),
         f |-> IF Truthy(Get(id, "f")) THEN convertDimensionRange(Get(id, "f")) ELSE AnyTag,
         x |-> IF Truthy(Get(id, "x")) THEN convertDimensionRange(Get(id, "x")) ELSE AnyTag,
         y |-> IF Truthy(Get(id, "y")) THEN convertDimensionRange(Get(id, "y")) ELSE AnyTag,
         i |-> Get(id, "i"),
         t |-> IF Truthy(Get(id, "t")) THEN convertDimensionRange(Get(id, "t")) ELSE AnyTag])

convertSpaceTimeId(id) ==
    Obj([z |-> Get(id, "z"),
         f |-> IF Truthy(Get(id, "f")) THEN convertDimensionRange(Get(id, "f")) ELSE AnyTag,
         x |-> IF Truthy(Get(id, "x")) THEN convertDimensionRange(Get(id, "x")) ELSE AnyTag,
         y |-> IF Truthy(Get(id, "y")) THEN convertDimensionRange(Get(id, "y")) ELSE AnyTag,
         i |-> IF Truthy(Get(id, "i")) THEN Get(id, "i") ELSE Num(0),
         t |-> IF Truthy(Get(id, "t")) THEN convertDimensionRange(Get(id, "t")) ELSE AnyTag])

convertFromWasmSpaceTimeId(wasmId) ==
    Obj([z |-> Get(wasmId, "z"),
         f |-> convertFromWasmDimensionRange(Get(wasmId, "f")),
         x |-> convertFromWasmDimensionRange(Get(wasmId, "x")),
         y |-> convertFromWasmDimensionRange(Get(wasmId, "y")),
         i |-> Get(wasmId, "i"),
         t |-> convertFromWasmDimensionRange(Get(wasmId, "t"))])

(***************************************************************************)
(* convertBooleanFilter / convertIntFilter / convertTextFilter             *)
(* (`k in filter` throws a TypeError when filter is not an object)         *)
(***************************************************************************)
convertBooleanFilter(filter) ==
    IF ~IsObject(filter) THEN Throw("TypeError")
    ELSE IF In("isTrue", filter) THEN Str("IsTrue")
    ELSE IF In("isFalse", filter) THEN Str("IsFalse")
    ELSE IF In("equals", filter) THEN Obj([Equals |-> filter.o.equals])
    ELSE IF In("notEquals", filter) THEN Obj([NotEquals |-> filter.o.notEquals])
    ELSE Throw("Unknown boolean filter")

\* convertIntFilter with the final throw left out: the function falls off
\* its end and returns undefined
convertIntFilterFallsThrough(filter) ==
    IF ~IsObject(filter) THEN Throw("TypeError")
    ELSE IF In("equal", filter) THEN Obj([Equal |-> filter.o.equal])
    ELSE IF In("notEqual", filter) THEN Obj([NotEqual |-> filter.o.notEqual])
    ELSE IF In("greaterThan", filter) THEN Obj([GreaterThan |-> filter.o.greaterThan])
    ELSE IF In("greaterEqual", filter) THEN Obj([GreaterEqual |-> filter.o.greaterEqual])
    ELSE IF In("lessThan", filter) THEN Obj([LessThan |-> filter.o.lessThan])
    ELSE IF In("lessEqual", filter) THEN Obj([LessEqual |-> filter.o.lessEqual])
    ELSE IF In("between", filter) THEN Obj([Between |-> filter.o.between])
    ELSE IF In("in", filter) THEN Obj([In |-> filter.o.in])
    ELSE IF In("notIn", filter) THEN Obj([NotIn |-> filter.o.notIn])
    ELSE Undef

convertIntFilter(filter) ==
    IF ~IsObject(filter) THEN Throw("TypeError")
    ELSE IF In("equal", filter) THEN Obj([Equal |-> filter.o.equal])
    ELSE IF In("notEqual", filter) THEN Obj([NotEqual |-> filter.o.notEqual])
    ELSE IF In("greaterThan", filter) THEN Obj([GreaterThan |-> filter.o.greaterThan])
    ELSE IF In("greaterEqual", filter) THEN Obj([GreaterEqual |-> filter.o.greaterEqual])
    ELSE IF In("lessThan", filter) THEN Obj([LessThan |-> filter.o.lessThan])
    ELSE IF In("lessEqual", filter) THEN Obj([LessEqual |-> filter.o.lessEqual])
    ELSE IF In("between", filter) THEN Obj([Between |-> filter.o.between])
    ELSE IF In("in", filter) THEN Obj([In |-> filter.o.in])
    ELSE IF In("notIn", filter) THEN Obj([NotIn |-> filter.o.notIn])
    ELSE Throw("Unknown int filter")

\* convertTextFilter with the notContains line copied from the contains line
convertTextFilterCopied(filter) ==
    IF ~IsObject(filter) THEN Throw("TypeError")
    ELSE IF In("equal", filter) THEN Obj([Equal |-> filter.o.equal])
    ELSE IF In("notEqual", filter) THEN Obj([NotEqual |-> filter.o.notEqual])
    ELSE IF In("contains", filter) THEN Obj([Contains |-> filter.o.contains])
    ELSE IF In("notContains", filter) THEN Obj([Contains |-> filter.o.notContains])
    ELSE IF In("startsWith", filter) THEN Obj([StartsWith |-> filter.o.startsWith])
    ELSE IF In("endsWith", filter) THEN Obj([EndsWith |-> filter.o.endsWith])
    ELSE IF In("caseInsensitiveEqual", filter)
    THEN Obj([CaseInsensitiveEqual |-> filter.o.caseInsensitiveEqual])
    ELSE Throw("Unknown text filter")

convertTextFilter(filter) ==
    IF ~IsObject(filter) THEN Throw("TypeError")
    ELSE IF In("equal", filter) THEN Obj([Equal |-> filter.o.equal])
    ELSE IF In("notEqual", filter) THEN Obj([NotEqual |-> filter.o.notEqual])
    ELSE IF In("contains", filter) THEN Obj([Contains |-> filter.o.contains])
    ELSE IF In("notContains", filter) THEN Obj([NotContains |-> filter.o.notContains])
    ELSE IF In("startsWith", filter) THEN Obj([StartsWith |-> filter.o.startsWith])
    ELSE IF In("endsWith", filter) THEN Obj([EndsWith |-> filter.o.endsWith])
    ELSE IF In("caseInsensitiveEqual", filter)
    THEN Obj([CaseInsensitiveEqual |-> filter.o.caseInsensitiveEqual])
    ELSE Throw("Unknown text filter")

(***************************************************************************)
(* convertRange                                                            *)
(***************************************************************************)
\* the index of the first element of a sequence of results that is a throw
FirstThrow(r) == CHOOSE i \in 1..Len(r) : IsThrow(r[i]) /\ \A j \in 1..(i - 1) : ~IsThrow(r[j])

\* the Filter branch of convertRange copying the filter key even when the
\* caller gave no filter
convertRangeFilterKeepsKey(F) ==
    IF F = Undef THEN Throw("TypeError")
    ELSE LET flt == Get(F, "filter")
             spacename == Get(F, "space")
             keyname == Get(F, "key")
             leaf(fv) == Obj([Function |-> Obj([FilterValue |-> Obj(fv)])])
             with(tag, r) ==
                 IF IsThrow(r) THEN r
                 ELSE leaf([spacename |-> spacename, keyname |-> keyname,
                            filter |-> Obj(tag :> r)])
         IN  IF ~Truthy(flt)
             THEN leaf([spacename |-> spacename, keyname |-> keyname, filter |-> flt])
             ELSE IF ~IsObject(flt) THEN Throw("TypeError")
             ELSE IF In("boolean", flt)
             THEN with("FilterBOOLEAN", convertBooleanFilter(flt.o.boolean))
             ELSE IF In("int", flt)
             THEN with("FilterINT", convertIntFilter(flt.o.int))
             ELSE IF In("text", flt)
             THEN with("FilterTEXT", convertTextFilter(flt.o.text))
             ELSE leaf([spacename |-> spacename, keyname |-> keyname])

\* the Filter branch of convertRange
convertRangeFilter(F) ==
    IF F = Undef THEN Throw("TypeError")
    ELSE LET flt == Get(F, "filter")
             spacename == Get(F, "space")
             keyname == Get(F, "key")
             leaf(fv) == Obj([Function |-> Obj([FilterValue |-> Obj(fv)])])
             with(tag, r) ==
                 IF IsThrow(r) THEN r
                 ELSE leaf([spacename |-> spacename, keyname |-> keyname,
                            filter |-> Obj(tag :> r)])
         IN  IF ~Truthy(flt)
             THEN leaf([spacename |-> spacename, keyname |-> keyname])
             ELSE IF ~IsObject(flt) THEN Throw("TypeError")
             ELSE IF In("boolean", flt)
             THEN with("FilterBOOLEAN", convertBooleanFilter(flt.o.boolean))
             ELSE IF In("int", flt)
             THEN with("FilterINT", convertIntFilter(flt.o.int))
             ELSE IF In("text", flt)
             THEN with("FilterTEXT", convertTextFilter(flt.o.text))
             ELSE leaf([spacename |-> spacename, keyname |-> keyname])

\* the HasValue branch of convertRange
convertRangeHasValue(H) ==
    IF H = Undef THEN Throw("TypeError")
    ELSE Obj([Function |->
              Obj([HasValue |->
                   Obj([spacename |-> Get(H, "space"), keyname |-> Get(H, "key")])])])

RECURSIVE convertRange(_)
\* convertRangePrefix building the list of children back to front
convertRangePrefixReversed(tag, kids) ==
    IF ~IsArray(kids) THEN Throw("TypeError")
    ELSE LET n == Len(kids.a)
             r == [i \in 1..n |-> convertRange(kids.a[n + 1 - i])]
         IN  IF \E i \in 1..n : IsThrow(r[i])
             THEN r[FirstThrow(r)]
             ELSE Obj([Prefix |-> Obj(tag :> Arr(r))])

\* convertRangePrefix leaving out the children whose conversion throws
convertRangePrefixSkipping(tag, kids) ==
    IF ~IsArray(kids) THEN Throw("TypeError")
    ELSE LET r == [i \in 1..Len(kids.a) |-> convertRange(kids.a[i])]
         IN  Obj([Prefix |-> Obj(tag :> Arr(SelectSeq(r, LAMBDA v : ~IsThrow(v))))])

\* range[tag].map(convertRange) wrapped as {Prefix: {tag: [...]}}; the first
\* child that throws ends the map and the call
convertRangePrefix(tag, kids) ==
    IF ~IsArray(kids) THEN Throw("TypeError")
    ELSE LET r == [i \in 1..Len(kids.a) |-> convertRange(kids.a[i])]
         IN  IF \E i \in 1..Len(r) : IsThrow(r[i])
             THEN r[FirstThrow(r)]
             ELSE Obj([Prefix |-> Obj(tag :> Arr(r))])

convertRange(range) ==
    IF ~IsObject(range) THEN Throw("TypeError")
    ELSE IF In("z", range) /\ IsNumber(range.o.z)
    THEN Obj([SpaceTimeIdSet |-> Arr(<<convertSpaceTimeId(range)>>)])
    ELSE IF In("OR", range) THEN convertRangePrefix("OR", range.o.OR)
    ELSE IF In("AND", range) THEN convertRangePrefix("AND", range.o.AND)
    ELSE IF In("XOR", range) THEN convertRangePrefix("XOR", range.o.XOR)
    ELSE IF In("NOT", range) THEN convertRangePrefix("NOT", range.o.NOT)
    ELSE IF In("Filter", range) THEN convertRangeFilter(range.o.Filter)
    ELSE IF In("HasValue", range) THEN convertRangeHasValue(range.o.HasValue)
    ELSE Throw("Unknown range type")

(***************************************************************************)
(* StaticMethods.range and StaticMethods.filter: the builders              *)
(***************************************************************************)
\* and / or / xor / not (...ranges) => ({ TAG: ranges })
rangeCombinator(tag, ranges) == Obj(tag :> Arr(ranges))
\* filter(space, key, filter?) => ({ Filter: { space, key, filter } })
rangeFilter(space, key, filter) ==
    Obj([Filter |-> Obj([space |-> space, key |-> key, filter |-> filter])])
\* hasValue(space, key) => ({ HasValue: { space, key } })
rangeHasValue(space, key) == Obj([HasValue |-> Obj([space |-> space, key |-> key])])

\* isTrue() / isFalse() => ({ name: true })
filterFlag(name) == Obj(name :> Bool(TRUE))
\* every builder of one argument: (value) => ({ name: value })
filterOf(name, value) == Obj(name :> value)
\* int.between(start, end) => ({ between: [start, end] })
filterBetween(start, end) == Obj([between |-> Arr(<<start, end>>)])

(***************************************************************************)
(* Inputs.                                                                 *)
(***************************************************************************)
Nums == {Num(n) : n \in 0..MaxNum}
DimElems == Nums \cup {Dash}
SeqsUpTo(S, n) == UNION {[1..k -> S] : k \in 0..n}
\* every compact array of at most MaxLen elements, valid or not
DimArrays == {Arr(a) : a \in SeqsUpTo(DimElems, MaxLen)}
\* the five shapes of the DimensionRange type
IsDimensionRange(r) ==
    /\ IsArray(r)
    /\ \/ Len(r.a) = 1
       \/ Len(r.a) = 2 /\ ~(r.a[1] = Dash /\ r.a[2] = Dash)

\* an object holding the keys of r whose value is not undefined (an omitted
\* key is a key the caller did not write)
Supplied(r) == Obj([k \in {k \in DOMAIN r : r[k] # Undef} |-> r[k]])

\* what a caller may write for one dimension of an id: nothing, one of the
\* array notations, or a bare number (README quick start: x: 100)
DimChoices ==
    {Undef, Arr(<<Dash>>), Arr(<<Num(MaxNum)>>), Arr(<<Num(0), Dash>>),
     Num(0), Num(1)}
IdInputs ==
    {Supplied([z |-> z, f |-> f, x |-> x, y |-> y, i |-> i, t |-> t]) :
        z \in {Undef, Num(0), Num(MaxNum)}, i \in {Undef, Num(0), Num(1)},
        f \in DimChoices, x \in DimChoices, y \in DimChoices, t \in DimChoices}

\* what the engine may hand back for one dimension: the five wire shapes,
\* and values of no known shape
KnownWireDims ==
    {AnyTag}
    \cup {Obj([Single |-> n]) : n \in Nums}
    \cup {Obj([LimitRange |-> Arr(<<a, b>>)]) : a \in Nums, b \in Nums}
    \cup {Obj([BeforeUnLimitRange |-> n]) : n \in Nums}
    \cup {Obj([AfterUnLimitRange |-> n]) : n \in Nums}
UnknownWireDims ==
    {Str("All"), EmptyObj, Undef, Num(1), Arr(<<Num(1)>>)}
    \cup {Obj([Range |-> Arr(<<a, b>>)]) : a \in Nums, b \in Nums}
WireDimInputs == KnownWireDims \cup UnknownWireDims
IsKnownWireDim(w) ==
    \/ w = AnyTag
    \/ /\ IsObject(w)
       /\ DOMAIN w.o \cap {"Single", "LimitRange", "BeforeUnLimitRange",
                           "AfterUnLimitRange"} # {}
WireDimChoices ==
    {AnyTag, Obj([Single |-> Num(1)]), Obj([AfterUnLimitRange |-> Num(0)]),
     Str("All"), Obj([Range |-> Arr(<<Num(0), Num(1)>>)])}
WireIdInputs ==
    {Obj([z |-> z, f |-> f, x |-> x, y |-> y, i |-> i, t |-> t]) :
        z \in {Num(0), Num(MaxNum)}, i \in {Num(0), Num(1)},
        f \in WireDimChoices, x \in WireDimChoices, y \in WireDimChoices,
        t \in WireDimChoices}

\* filter objects, per value kind: every single-predicate shape (the ones
\* the StaticMethods.filter builders produce among them), objects with no
\* known predicate, and objects with two predicates
BooleanKeys == {"isTrue", "isFalse", "equals", "notEquals"}
IntScalarKeys == {"equal", "notEqual", "greaterThan", "greaterEqual", "lessThan", "lessEqual"}
IntListKeys == {"in", "notIn"}
IntKeys == IntScalarKeys \cup {"between"} \cup IntListKeys
TextKeys == {"equal", "notEqual", "contains", "notContains", "startsWith",
             "endsWith", "caseInsensitiveEqual"}
Bools == {Bool(TRUE), Bool(FALSE)}
Texts == {Str(""), Str("a"), Str("Ab")}
NumLists == {Arr(a) : a \in SeqsUpTo(Nums, 2)}
BuiltBooleanFilters ==
    {filterFlag(k) : k \in {"isTrue", "isFalse"}}
    \cup {filterOf(k, b) : k \in {"equals", "notEquals"}, b \in Bools}
BuiltIntFilters ==
    {filterOf(k, n) : k \in IntScalarKeys, n \in Nums}
    \cup {filterBetween(a, b) : a \in Nums, b \in Nums}
    \cup {filterOf(k, l) : k \in IntListKeys, l \in NumLists}
BuiltTextFilters == {filterOf(k, v) : k \in TextKeys, v \in Texts}
UnknownFilters == {EmptyObj, Obj([bogus |-> Num(1)])}
BooleanFilterInputs ==
    BuiltBooleanFilters
    \cup {Obj(k :> Bool(FALSE)) : k \in {"isTrue", "isFalse"}}
    \cup UnknownFilters
    \cup {Obj([isFalse |-> Bool(TRUE), equals |-> Bool(TRUE)])}
IntFilterInputs ==
    BuiltIntFilters
    \cup UnknownFilters
    \cup {Obj([greaterThan |-> Num(0), lessThan |-> Num(MaxNum)])}
TextFilterInputs ==
    BuiltTextFilters
    \cup UnknownFilters
    \cup {Obj([startsWith |-> Str("a"), endsWith |-> Str("Ab")])}

\* range expressions: the leaves a caller may write, and the combinators
\* built over them by StaticMethods.range
Spaces == {Str("s1"), Str("s2")}
Keys == {Str("k1")}
IdA == Obj([z |-> Num(MaxNum), i |-> Num(0)])
IdB == Obj([z |-> Num(1), i |-> Num(1), f |-> Arr(<<Num(0), Num(MaxNum)>>),
            x |-> Arr(<<Dash, Num(1)>>), y |-> Arr(<<Num(1)>>), t |-> Arr(<<Dash>>)])
IdC == Obj([z |-> Num(0)])
IdLeaves == {IdA, IdB, IdC}
\* objects of no range shape: empty, an unknown key, an id without z, an id
\* whose z is not a number
UnknownRanges ==
    {EmptyObj, Obj([bogus |-> Num(1)]), Obj([i |-> Num(0)]),
     Obj([z |-> Str("3"), i |-> Num(0)])}
FilterLeaves ==
    {Obj([Filter |-> Obj([space |-> s, key |-> k])]) : s \in Spaces, k \in Keys}
    \cup {rangeFilter(s, k, Undef) : s \in Spaces, k \in Keys}
    \cup {rangeFilter(Str("s1"), Str("k1"), f) :
            f \in {Obj([boolean |-> filterOf("equals", Bool(FALSE))]),
                   Obj([int |-> filterBetween(Num(0), Num(MaxNum))]),
                   Obj([text |-> filterOf("contains", Str("a"))]),
                   Obj([int |-> EmptyObj]),
                   EmptyObj,
                   Obj([bogus |-> filterOf("equal", Num(1))])}}
HasValueLeaves == {rangeHasValue(s, k) : s \in Spaces, k \in Keys}
CombinatorTags == {"AND", "OR", "XOR", "NOT"}
RangeLeaves ==
    IdLeaves \cup UnknownRanges \cup FilterLeaves \cup HasValueLeaves
    \cup {rangeCombinator(tag, <<>>) : tag \in CombinatorTags}
\* the ranges put beside the one being wrapped
Siblings == {IdB, rangeCombinator("NOT", <<IdC>>)}

\* expressions carrying more than one of the keys convertRange looks for:
\* two combinators, all four, and a combinator beside an id, a Filter or a
\* HasValue
MixedRanges ==
    {Obj([AND |-> Arr(<<IdA>>), OR |-> Arr(<<IdC>>)]),
     Obj([AND |-> Arr(<<IdA>>), OR |-> Arr(<<IdA>>), XOR |-> Arr(<<IdA>>),
          NOT |-> Arr(<<IdC>>)]),
     Obj([z |-> Num(1), i |-> Num(0), NOT |-> Arr(<<IdC>>)]),
     Obj([XOR |-> Arr(<<IdA, IdC>>),
          Filter |-> Obj([space |-> Str("s1"), key |-> Str("k1")])]),
     Obj([NOT |-> Arr(<<IdA>>),
          HasValue |-> Obj([space |-> Str("s1"), key |-> Str("k1")])])}

\* how many combinators are nested in a range expression
RECURSIVE RangeDepth(_)
RangeDepth(range) ==
    LET tags == IF IsObject(range) THEN DOMAIN range.o \cap CombinatorTags ELSE {}
        Max(S) == CHOOSE m \in S : \A n \in S : n <= m
    IN  IF tags = {} THEN 0
        ELSE 1 + Max({0} \cup UNION {{RangeDepth(range.o[tag].a[j]) :
                                          j \in 1..Len(range.o[tag].a)} : tag \in tags})

(***************************************************************************)
(* Kasane.isVersionInRange and its helpers.  A version string is the join   *)
(* of its parts with dots; split(".") takes it apart again.                 *)
(***************************************************************************)
\* the parts a version string is made of: decimal integers, one with a
\* leading zero, and one part that is no number at all
PartStrings == {"0", "1", "5", "01", "x"}
\* parseInt(part, 10) on each of them
parseInt ==
    [part \in PartStrings |->
        CASE part = "0" -> Num(0)
          [] part = "1" -> Num(1)
          [] part = "5" -> Num(5)
          [] part = "01" -> Num(1)
          [] part = "x" -> NaN]

RECURSIVE Join(_)
Join(parts) ==
    IF Len(parts) = 1 THEN parts[1] ELSE parts[1] \o "." \o Join(Tail(parts))

\* version strings have at most MaxLen + 1 parts
PartSeqs == SeqsUpTo(PartStrings, MaxLen + 1) \ {<<>>}
VersionStrings == {Join(parts) : parts \in PartSeqs}
\* v.split(".")
split == [v \in VersionStrings |-> CHOOSE parts \in PartSeqs : Join(parts) = v]

\* v.split(".").map((part) => parseInt(part, 10) || 0)
parseVersion(v) ==
    LET parts == split[v]
    IN  [i \in 1..Len(parts) |->
            IF Truthy(parseInt[parts[i]]) THEN parseInt[parts[i]].n ELSE 0]

\* v[i] || 0: a missing component and a zero component both read as 0
ComponentAt(v, i) == IF i <= Len(v) /\ v[i] # 0 THEN v[i] ELSE 0

\* compareVersions with the loop running to the shorter length only
compareVersionsToShorter(v1, v2) ==
    LET n == IF Len(v1) < Len(v2) THEN Len(v1) ELSE Len(v2)
        differing == {i \in 1..n : ComponentAt(v1, i) # ComponentAt(v2, i)}
    IN  IF differing = {} THEN 0
        ELSE LET i == CHOOSE j \in differing : \A k \in differing : j <= k
             IN  ComponentAt(v1, i) - ComponentAt(v2, i)

compareVersions(v1, v2) ==
    LET n == IF Len(v1) > Len(v2) THEN Len(v1) ELSE Len(v2)
        differing == {i \in 1..n : ComponentAt(v1, i) # ComponentAt(v2, i)}
    IN  IF differing = {} THEN 0
        ELSE LET i == CHOOSE j \in differing : \A k \in differing : j <= k
             IN  ComponentAt(v1, i) - ComponentAt(v2, i)

\* isVersionInRange with the upper bound exclusive
isVersionInRangeExclusive(version, min, max) ==
    LET versionParts == parseVersion(version)
        minParts == parseVersion(min)
        maxParts == parseVersion(max)
        isAboveMin == compareVersions(versionParts, minParts) >= 0
        isBelowMax == compareVersions(versionParts, maxParts) < 0
    IN  isAboveMin /\ isBelowMax

isVersionInRange(version, min, max) ==
    LET versionParts == parseVersion(version)
        minParts == parseVersion(min)
        maxParts == parseVersion(max)
        isAboveMin == compareVersions(versionParts, minParts) >= 0
        isBelowMax == compareVersions(versionParts, maxParts) <= 0
    IN  isAboveMin /\ isBelowMax

\* SUPPORTED_WASM_VERSION_RANGE
SUPPORTED_WASM_VERSION_RANGE == [min |-> "0.0.1", max |-> "0.0.1"]

\* the ranges isVersionInRange is asked about: the supported one, a wider
\* one, one whose ends differ in length, and an empty one
VersionRanges ==
    {SUPPORTED_WASM_VERSION_RANGE,
     [min |-> "0.0.1", max |-> "0.1.0"],
     [min |-> "0.1", max |-> "1.0.0"],
     [min |-> "1.0", max |-> "0.5"]}
VersionInputs ==
    {Arr(<<Str(v), Str(r.min), Str(r.max)>>) : v \in VersionStrings, r \in VersionRanges}

(***************************************************************************)
(* JSON text.  A text the engine can read is the JSON value it denotes;     *)
(* stringify drops object members whose value is undefined and writes       *)
(* undefined array elements as null.                                        *)
(***************************************************************************)
RECURSIVE ToJSON(_)
ToJSON(v) ==
    CASE v.t = "object" ->
             Obj([k \in {key \in DOMAIN v.o : v.o[key] # Undef} |-> ToJSON(v.o[k])])
      [] v.t = "array" ->
             Arr([i \in 1..Len(v.a) |-> IF v.a[i] = Undef THEN Null ELSE ToJSON(v.a[i])])
      [] v.t = "nan" -> Null
      [] OTHER -> v
\* JSON.stringify(v)
JSONStringify(v) == [t |-> "text", json |-> ToJSON(v)]
\* a text that is not JSON
NotJSON == [t |-> "text", raw |-> "<html>"]
\* JSON.parse(text)
JSONParse(text) == IF "json" \in DOMAIN text THEN text.json ELSE Throw("SyntaxError")

(***************************************************************************)
(* wrapValueEntry and convertVertex                                        *)
(***************************************************************************)
wrapValueEntry(value) ==
    CASE value.t = "number" -> Obj([INT |-> value])
      [] value.t = "string" -> Obj([TEXT |-> value])
      [] value.t = "boolean" -> Obj([BOOLEAN |-> value])
      [] OTHER -> Throw("Unsupported ValueEntry type")

\* convertVertex without the test of each point's length
convertVertexUncheckedPoints(wasmVertex) ==
    IF ~Truthy(wasmVertex) THEN Undef
    ELSE IF Len(wasmVertex.a) # 8 THEN Throw("Invalid vertex length")
    ELSE wasmVertex

convertVertex(wasmVertex) ==
    IF ~Truthy(wasmVertex) THEN Undef
    ELSE IF Len(wasmVertex.a) # 8 THEN Throw("Invalid vertex length")
    ELSE IF \E i \in 1..Len(wasmVertex.a) : Len(wasmVertex.a[i].a) # 3
    THEN Throw("Invalid vertex point length")
    ELSE Arr([i \in 1..Len(wasmVertex.a) |-> wasmVertex.a[i]])

\* v || undefined
OrUndefined(v) == IF Truthy(v) THEN v ELSE Undef
\* v || false
OrFalse(v) == IF Truthy(v) THEN v ELSE Bool(FALSE)

(***************************************************************************)
(* Kasane.executeCommand.  An operation's outcome is a record: the request *)
(* texts handed to the engine's execute, what the operation returned or    *)
(* threw, and what it wrote to the console.                                *)
(***************************************************************************)
Outcome(requests, result, lines) == [sent |-> requests, out |-> result, log |-> lines]

\* JSON.parse(res)[0]
FirstElement(res) ==
    LET parsed == JSONParse(res)
    IN  IF IsThrow(parsed) THEN parsed
        ELSE IF parsed = Null THEN Throw("TypeError")
        ELSE IF IsArray(parsed)
        THEN IF Len(parsed.a) >= 1 THEN parsed.a[1] ELSE Undef
        ELSE IF IsObject(parsed) THEN Get(parsed, "0")
        ELSE Undef

\* what executeCommand makes of the element it looks at
Settle(res_json) ==
    IF IsThrow(res_json) THEN res_json
    ELSE IF IsArray(res_json) THEN Undef
    ELSE IF ~IsObject(res_json) THEN Throw("TypeError")
    ELSE IF In("Error", res_json) THEN Throw(Get(res_json, "Error").s)
    ELSE Get(res_json, "Success")

DebugLog(text, data) == [level |-> "log", text |-> text, data |-> data]
Warn(text) == [level |-> "warn", text |-> text]

\* executeCommand taking the last element of the reply instead of the first
executeCommandLastElement(command, res, dbg) ==
    LET parsed == JSONParse(res)
        res_json == IF IsThrow(parsed) THEN parsed
                    ELSE IF parsed = Null THEN Throw("TypeError")
                    ELSE IF IsArray(parsed)
                    THEN IF Len(parsed.a) >= 1 THEN parsed.a[Len(parsed.a)] ELSE Undef
                    ELSE Undef
    IN  Outcome(<<JSONStringify(Obj([command |-> Arr(<<command>>)]))>>,
                Settle(res_json), <<>>)

\* executeCommand testing the Error member for truth instead of presence
executeCommandTruthyError(command, res, dbg) ==
    LET res_json == FirstElement(res)
        result == IF IsThrow(res_json) THEN res_json
                  ELSE IF ~IsObject(res_json) THEN Throw("TypeError")
                  ELSE IF Truthy(Get(res_json, "Error"))
                  THEN Throw(Get(res_json, "Error").s)
                  ELSE Get(res_json, "Success")
    IN  Outcome(<<JSONStringify(Obj([command |-> Arr(<<command>>)]))>>, result, <<>>)

\* executeCommand logging an Error element in debug mode instead of throwing
executeCommandDebugSwallows(command, res, dbg) ==
    LET res_json == FirstElement(res)
    IN  Outcome(<<JSONStringify(Obj([command |-> Arr(<<command>>)]))>>,
                IF dbg /\ IsObject(res_json) /\ In("Error", res_json) THEN Undef
                ELSE Settle(res_json),
                <<>>)

\* executeCommand wrapping the payload it returns
executeCommandWrapped(command, res, dbg) ==
    LET res_json == FirstElement(res)
        result == Settle(res_json)
    IN  Outcome(<<JSONStringify(Obj([command |-> Arr(<<command>>)]))>>,
                IF IsThrow(result) THEN result ELSE Obj([Success |-> result]), <<>>)

executeCommand(command, res, dbg) ==
    LET res_json == FirstElement(res)
        input == IF dbg
                 THEN <<DebugLog("INPUT", JSONStringify(Obj([command |-> Arr(<<command>>)])))>>
                 ELSE <<>>
        output == IF dbg /\ ~IsThrow(res_json)
                  THEN <<DebugLog("OUTPUT", IF res_json = Undef THEN Undef
                                            ELSE JSONStringify(res_json))>>
                  ELSE <<>>
    IN  Outcome(<<JSONStringify(Obj([command |-> Arr(<<command>>)]))>>,
                Settle(res_json), input \o output)

\* the request sent before the command's members are evaluated
InvokeBeforeEncoding(command, res, dbg) ==
    IF IsThrow(command)
    THEN Outcome(<<JSONStringify(Obj([command |-> Arr(<<Obj([Pending |-> EmptyObj])>>)]))>>,
                 command, <<>>)
    ELSE executeCommand(command, res, dbg)

\* this.executeCommand(<expression>): the expression is evaluated first, and
\* when it throws executeCommand is not entered
Invoke(command, res, dbg) ==
    IF IsThrow(command) THEN Outcome(<<>>, command, <<>>)
    ELSE executeCommand(command, res, dbg)

\* typeof result === "object" && tag in result ? result[tag] : throw
Variant(result, tag, message) ==
    IF result = Null THEN Throw("TypeError")
    ELSE IF IsObject(result) /\ In(tag, result) THEN Get(result, tag)
    ELSE Throw(message)

\* an operation that returns nothing
Discard(outcome) == [outcome EXCEPT !.out = IF IsThrow(@) THEN @ ELSE Undef]

(***************************************************************************)
(* The public operations (SpaceCommandsImpl, KeyCommandsImpl,              *)
(* ValueCommandsImpl, QueryCommandsImpl, UtilityCommandsImpl), each as the  *)
(* outcome it has for its parameters and the engine's reply.                *)
(***************************************************************************)
addSpace(params, res, dbg) ==
    Discard(Invoke(Obj([AddSpace |-> Obj([spacename |-> Get(params, "space")])]),
                   res, dbg))

deleteSpace(params, res, dbg) ==
    Discard(Invoke(Obj([DeleteSpace |-> Obj([spacename |-> Get(params, "space")])]),
                   res, dbg))

showSpaces(params, res, dbg) ==
    LET r == Invoke(Obj([Spaces |-> EmptyObj]), res, dbg)
    IN  [r EXCEPT !.out =
            IF IsThrow(@) THEN @
            ELSE Variant(@, "SpaceNames", "Unexpected response format for showSpaces")]

addKey(params, res, dbg) ==
    Discard(Invoke(Obj([AddKey |-> Obj([spacename |-> Get(params, "space"),
                                        keyname |-> Get(params, "key"),
                                        type |-> Get(params, "type")])]),
                   res, dbg))

deleteKey(params, res, dbg) ==
    Discard(Invoke(Obj([DeleteKey |-> Obj([spacename |-> Get(params, "space"),
                                           name |-> Get(params, "key")])]),
                   res, dbg))

showKeys(params, res, dbg) ==
    LET r == Invoke(Obj([Keys |-> Obj([spacename |-> Get(params, "space")])]), res, dbg)
    IN  [r EXCEPT !.out =
            IF IsThrow(@) THEN @
            ELSE Variant(@, "KeyNames", "Unexpected response format for showKeys")]

\* the command of putValue and setValue: the range is encoded before the
\* value is wrapped
ValueCommand(tag, params) ==
    LET range == convertRange(Get(params, "range"))
        value == wrapValueEntry(Get(params, "value"))
    IN  IF IsThrow(range) THEN range
        ELSE IF IsThrow(value) THEN value
        ELSE Obj(tag :> Obj([spacename |-> Get(params, "space"),
                             keyname |-> Get(params, "key"),
                             range |-> range,
                             value |-> value]))

putValue(params, res, dbg) == Discard(Invoke(ValueCommand("PutValue", params), res, dbg))

setValue(params, res, dbg) == Discard(Invoke(ValueCommand("SetValue", params), res, dbg))

deleteValue(params, res, dbg) ==
    LET range == convertRange(Get(params, "range"))
        command == IF IsThrow(range) THEN range
                   ELSE Obj([DeleteValue |-> Obj([spacename |-> Get(params, "space"),
                                                  keyname |-> Get(params, "key"),
                                                  range |-> range])])
    IN  Discard(Invoke(command, res, dbg))

\* const options = params.options || {}, and the four flags read from it
OutputFlags(params) ==
    LET options == IF Truthy(Get(params, "options")) THEN Get(params, "options")
                   ELSE EmptyObj
    IN  [vertex |-> OrFalse(Get(options, "vertex")),
         center |-> OrFalse(Get(options, "center")),
         id_string |-> OrFalse(Get(options, "id_string")),
         id_pure |-> OrFalse(Get(options, "id_pure"))]

\* result.GetValue.map(...) / result.SelectValue.map(...): the records are
\* converted in order and the first throw ends the call
MapRecords(converted) ==
    IF \E i \in 1..Len(converted) : IsThrow(converted[i])
    THEN converted[FirstThrow(converted)]
    ELSE Arr(converted)

\* the record getValue builds with the id_string member copied as it is
GetValueRecordCopied(wasmOutput) ==
    LET spacetimeid == convertFromWasmSpaceTimeId(Get(wasmOutput, "spacetimeid"))
        vertex == convertVertex(Get(wasmOutput, "vertex"))
    IN  IF IsThrow(spacetimeid) THEN spacetimeid
        ELSE IF IsThrow(vertex) THEN vertex
        ELSE Obj([spacetimeid |-> spacetimeid,
                  id_string |-> Get(wasmOutput, "id_string"),
                  vertex |-> vertex,
                  center |-> OrUndefined(Get(wasmOutput, "center")),
                  value |-> Get(wasmOutput, "value")])

\* the record getValue builds from one record of the reply
GetValueRecord(wasmOutput) ==
    LET spacetimeid == convertFromWasmSpaceTimeId(Get(wasmOutput, "spacetimeid"))
        vertex == convertVertex(Get(wasmOutput, "vertex"))
    IN  IF IsThrow(spacetimeid) THEN spacetimeid
        ELSE IF IsThrow(vertex) THEN vertex
        ELSE Obj([spacetimeid |-> spacetimeid,
                  id_string |-> OrUndefined(Get(wasmOutput, "id_string")),
                  vertex |-> vertex,
                  center |-> OrUndefined(Get(wasmOutput, "center")),
                  value |-> Get(wasmOutput, "value")])

\* the record select builds from one record of the reply
SelectRecord(wasmOutput) ==
    LET spacetimeid == convertFromWasmSpaceTimeId(Get(wasmOutput, "spacetimeid"))
        vertex == convertVertex(Get(wasmOutput, "vertex"))
    IN  IF IsThrow(spacetimeid) THEN spacetimeid
        ELSE IF IsThrow(vertex) THEN vertex
        ELSE Obj([spacetimeid |-> spacetimeid,
                  id_string |-> OrUndefined(Get(wasmOutput, "id_string")),
                  vertex |-> vertex,
                  center |-> OrUndefined(Get(wasmOutput, "center"))])

getValue(params, res, dbg) ==
    LET range == convertRange(Get(params, "range"))
        flags == OutputFlags(params)
        command == IF IsThrow(range) THEN range
                   ELSE Obj([GetValue |-> Obj([spacename |-> Get(params, "space"),
                                               keyname |-> Get(params, "key"),
                                               range |-> range,
                                               vertex |-> flags.vertex,
                                               center |-> flags.center,
                                               id_string |-> flags.id_string,
                                               id_pure |-> flags.id_pure])])
        r == Invoke(command, res, dbg)
        list == IF IsThrow(r.out) THEN r.out
                ELSE Variant(r.out, "GetValue", "Unexpected response format for getValue")
    IN  [r EXCEPT !.out =
            IF IsThrow(list) THEN list
            ELSE IF ~IsArray(list) THEN Throw("TypeError")
            ELSE MapRecords([i \in 1..Len(list.a) |-> GetValueRecord(list.a[i])])]

select(params, res, dbg) ==
    LET range == convertRange(Get(params, "range"))
        flags == OutputFlags(params)
        command == IF IsThrow(range) THEN range
                   ELSE Obj([Select |-> Obj([range |-> range,
                                             vertex |-> flags.vertex,
                                             center |-> flags.center,
                                             id_string |-> flags.id_string,
                                             id_pure |-> flags.id_pure])])
        r == Invoke(command, res, dbg)
        list == IF IsThrow(r.out) THEN r.out
                ELSE Variant(r.out, "SelectValue", "Unexpected response format for select")
    IN  [r EXCEPT !.out =
            IF IsThrow(list) THEN list
            ELSE IF ~IsArray(list) THEN Throw("TypeError")
            ELSE MapRecords([i \in 1..Len(list.a) |-> SelectRecord(list.a[i])])]

getVersion(params, res, dbg) ==
    LET r == Invoke(Str("Version"), res, dbg)
    IN  [r EXCEPT !.out =
            IF IsThrow(@) THEN @
            ELSE Variant(@, "Version", "Unexpected response format for getVersion")]

(***************************************************************************)
(* The scoped handles: kasane.space(s) and kasane.space(s).key(k).          *)
(***************************************************************************)
\* KeyCommandsImpl.key with setValue and putValue handed to each other's
\* implementation
keyHandleCrossed(name, space, key, params, res, dbg) ==
    LET scoped == Obj([space |-> space, key |-> key, range |-> Get(params, "range")])
    IN  CASE name = "getValue" ->
                 getValue(Obj(scoped.o @@ [options |-> Get(params, "options")]), res, dbg)
          [] name = "setValue" ->
                 putValue(Obj(scoped.o @@ [value |-> Get(params, "value")]), res, dbg)
          [] name = "putValue" ->
                 setValue(Obj(scoped.o @@ [value |-> Get(params, "value")]), res, dbg)
          [] name = "deleteValue" -> deleteValue(scoped, res, dbg)

\* the operations of the object KeyCommandsImpl.key(space, key) returns
keyHandle(name, space, key, params, res, dbg) ==
    LET scoped == Obj([space |-> space, key |-> key, range |-> Get(params, "range")])
    IN  CASE name = "getValue" ->
                 getValue(Obj(scoped.o @@ [options |-> Get(params, "options")]), res, dbg)
          [] name = "setValue" ->
                 setValue(Obj(scoped.o @@ [value |-> Get(params, "value")]), res, dbg)
          [] name = "putValue" ->
                 putValue(Obj(scoped.o @@ [value |-> Get(params, "value")]), res, dbg)
          [] name = "deleteValue" -> deleteValue(scoped, res, dbg)

\* the operations of the object SpaceCommandsImpl.space(space) returns
spaceHandle(name, space, params, res, dbg) ==
    CASE name = "showKeys" -> showKeys(Obj([space |-> space]), res, dbg)
      [] name = "addKey" ->
             addKey(Obj([space |-> space, key |-> Get(params, "key"),
                         type |-> Get(params, "type")]), res, dbg)
      [] name = "deleteKey" ->
             deleteKey(Obj([space |-> space, key |-> Get(params, "key")]), res, dbg)

(***************************************************************************)
(* Kasane.init, once the engine module is loaded: the gateway is built and *)
(* its version checked.                                                     *)
(***************************************************************************)
CompatibilityWarning == Warn("Version compatibility warning")
CouldNotVerifyWarning == Warn("Could not verify WASM version compatibility")

\* checkVersionCompatibility without its catch clause
checkVersionCompatibilityUncaught(res, dbg) ==
    LET r == getVersion(Undef, res, dbg)
        wasmVersion == r.out
    IN  IF IsThrow(wasmVersion) THEN r
        ELSE IF wasmVersion.t # "string"
        THEN [r EXCEPT !.out = Throw("TypeError")]
        ELSE IF ~isVersionInRange(wasmVersion.s, SUPPORTED_WASM_VERSION_RANGE.min,
                                  SUPPORTED_WASM_VERSION_RANGE.max)
        THEN [r EXCEPT !.out = Undef, !.log = @ \o <<CompatibilityWarning>>]
        ELSE [r EXCEPT !.out = Undef]

\* a version that is no string throws at v.split, inside the try
checkVersionCompatibility(res, dbg) ==
    LET r == getVersion(Undef, res, dbg)
        wasmVersion == r.out
    IN  IF IsThrow(wasmVersion) \/ wasmVersion.t # "string"
        THEN [r EXCEPT !.out = Undef, !.log = @ \o <<CouldNotVerifyWarning>>]
        ELSE IF ~isVersionInRange(wasmVersion.s, SUPPORTED_WASM_VERSION_RANGE.min,
                                  SUPPORTED_WASM_VERSION_RANGE.max)
        THEN [r EXCEPT !.out = Undef, !.log = @ \o <<CompatibilityWarning>>]
        ELSE [r EXCEPT !.out = Undef]

\* the instance init returns
KasaneInstance == Str("Kasane")

\* init returning the instance without checking the version
initUnchecked(res, dbg) == Outcome(<<>>, KasaneInstance, <<>>)

\* init after `await initWasm(wasmUrl)`
init(res, dbg) ==
    LET r == checkVersionCompatibility(res, dbg)
    IN  IF IsThrow(r.out) THEN r ELSE [r EXCEPT !.out = KasaneInstance]

(***************************************************************************)
(* What callers hand to the gateway and what the engine answers.           *)
(***************************************************************************)
\* an optional member left out of an object
Absent == [t |-> "absent"]
Member(k, v) == IF v = Absent THEN <<>> ELSE k :> v

GatewayRanges ==
    {IdA, Obj([bogus |-> Num(1)]),
     rangeFilter(Str("s1"), Str("k1"), Obj([int |-> filterOf("equal", Num(1))]))}
GatewayValues == {Num(1), Str("a"), Bool(TRUE), Undef}
GatewayOptions == {Absent, Obj([vertex |-> Bool(TRUE), id_string |-> Bool(TRUE)])}

SpaceParams == {Obj([space |-> s]) : s \in Spaces}
KeyParams == {Obj([space |-> s, key |-> k]) : s \in Spaces, k \in Keys}
AddKeyParams ==
    {Obj([space |-> s, key |-> k, type |-> Str("INT")]) : s \in Spaces, k \in Keys}
PutValueParams ==
    {Obj([space |-> Str("s1"), key |-> k, range |-> r, value |-> v]) :
        k \in Keys, r \in GatewayRanges, v \in GatewayValues}
GetValueParams ==
    {Obj([space |-> s, key |-> k, range |-> r] @@ Member("options", o)) :
        s \in Spaces, k \in Keys, r \in GatewayRanges, o \in GatewayOptions}
DeleteValueParams ==
    {Obj([space |-> s, key |-> k, range |-> r]) :
        s \in Spaces, k \in Keys, r \in GatewayRanges}
SelectParams ==
    {Obj([range |-> r] @@ Member("options", o)) :
        r \in GatewayRanges, o \in GatewayOptions}

\* vertex lists of n points, point i having m coordinates
VertexOf(n, m) == Arr([i \in 1..n |-> Arr([j \in 1..m |-> Num(i + j)])])
GoodVertex == VertexOf(8, 3)
WireVertices ==
    {Absent, Null, GoodVertex, Arr(<<>>), VertexOf(7, 3), VertexOf(9, 3),
     VertexOf(8, 2),
     \* eight points, the last of them with four coordinates
     Arr([i \in 1..8 |-> Arr([j \in 1..(IF i = 8 THEN 4 ELSE 3) |-> Num(i + j)])])}
WireIdStrings == {Absent, Null, Str(""), Str("1/0/0/0_0/0")}
WireCenters == {Absent, Null, Arr(<<Num(0), Num(1), Num(2)>>)}
WireValues ==
    {Obj([INT |-> Num(1)]), Obj([TEXT |-> Str("a")]), Obj([BOOLEAN |-> Bool(FALSE)])}
WireIdOne ==
    Obj([z |-> Num(1), f |-> Obj([Single |-> Num(0)]), x |-> Obj([Single |-> Num(1)]),
         y |-> AnyTag, i |-> Num(0), t |-> AnyTag])

WireSelectOutputs ==
    {Obj([spacetimeid |-> WireIdOne]
         @@ Member("id_string", s) @@ Member("vertex", v) @@ Member("center", c)) :
        s \in WireIdStrings, v \in WireVertices, c \in WireCenters}
WireGetValueOutputs ==
    {Obj(r.o @@ ("value" :> val)) : r \in WireSelectOutputs, val \in WireValues}

\* record lists: none, one record, and two records of which either may carry a
\* vertex of the wrong shape
Lists(records, pairs) ==
    {Arr(<<>>)} \cup {Arr(<<r>>) : r \in records}
    \cup {Arr(<<r1, r2>>) : r1 \in pairs, r2 \in pairs}
SelectPairs ==
    {Obj([spacetimeid |-> WireIdOne] @@ Member("vertex", v)) :
        v \in {Absent, GoodVertex, VertexOf(7, 3)}}
GetValuePairs == {Obj(r.o @@ ("value" :> Obj([INT |-> Num(1)]))) : r \in SelectPairs}

EngineVersions == {"0.0.1", "0.1.0", "0.0.0", "0.0.1.0", "0.0.1.5", "01.x.1", "x"}
Payloads ==
    {Str("Success"), Null,
     Obj([SpaceNames |-> Arr(<<Str("s1"), Str("s2")>>)]),
     Obj([KeyNames |-> Arr(<<Str("k1")>>)]),
     Obj([Version |-> Num(1)])}
    \cup {Obj([Version |-> Str(v)]) : v \in EngineVersions}
    \cup {Obj([GetValue |-> l]) : l \in Lists(WireGetValueOutputs, GetValuePairs)}
    \cup {Obj([SelectValue |-> l]) : l \in Lists(WireSelectOutputs, SelectPairs)}
Elements ==
    {Obj([Error |-> Str(m)]) : m \in {"space not found", ""}}
    \cup {Obj([Error |-> Str("space not found"), Success |-> Str("Success")])}
    \cup {Obj([Success |-> p]) : p \in Payloads}
\* what may follow the first element of a reply
Followers ==
    {Obj([Error |-> Str("key not found")]), Obj([Success |-> Str("Success")]),
     Obj([Success |-> Obj([Version |-> Str("0.1.0")])]),
     Obj([Success |-> Obj([SpaceNames |-> Arr(<<>>)])])}
Leaders ==
    Followers \cup {Obj([Success |-> Obj([Version |-> Str("0.0.1")])])}
\* the replies the scoped handles are tried against
HandleReplies ==
    {JSONStringify(Arr(<<e>>)) : e \in Leaders}
    \cup {JSONStringify(Arr(<<Obj([Success |-> Obj([GetValue |-> Arr(<<r>>)])])>>)) :
             r \in GetValuePairs}
    \cup {JSONStringify(Arr(<<Obj([Success |-> Obj([KeyNames |-> Arr(<<Str("k1")>>)])])>>)),
          NotJSON}
Replies ==
    {JSONStringify(Arr(<<e>>)) : e \in Elements}
    \cup {JSONStringify(Arr(<<e, f>>)) : e \in Leaders, f \in Followers}
    \cup {JSONStringify(Arr(<<>>)), JSONStringify(Null), JSONStringify(EmptyObj), NotJSON}

(***************************************************************************)
(* The state machine: a caller holds a value of one kind, hands it to the  *)
(* matching encoder, and may hand the result (or a value the engine        *)
(* returned) to the matching decoder.                                      *)
(***************************************************************************)
Init ==
    /\ fn = "none"
    /\ out = Undef
    /\ sent = <<>>
    /\ reply = Undef
    /\ log = <<>>
    /\ firstSent = Undef
    /\ prev = "none"
    /\ \/ /\ gw = "none"
          /\ debug = FALSE
          /\ \/ kind = "dimension" /\ arg \in DimArrays /\ wire = Undef
             \/ kind = "id" /\ arg \in IdInputs /\ wire = Undef
             \/ kind = "range" /\ arg \in RangeLeaves /\ wire = Undef
             \/ kind = "mixedRange" /\ arg \in MixedRanges /\ wire = Undef
             \/ kind = "booleanFilter" /\ arg \in BooleanFilterInputs /\ wire = Undef
             \/ kind = "intFilter" /\ arg \in IntFilterInputs /\ wire = Undef
             \/ kind = "textFilter" /\ arg \in TextFilterInputs /\ wire = Undef
             \/ kind = "wireDimension" /\ arg = Undef /\ wire \in WireDimInputs
             \/ kind = "wireId" /\ arg = Undef /\ wire \in WireIdInputs
             \/ kind = "version" /\ arg \in VersionInputs /\ wire = Undef
       \/ /\ kind = "gateway"
          /\ gw = "loaded"
          /\ debug \in BOOLEAN
          /\ arg = Undef
          /\ wire = Undef

CallConvertDimensionRange ==
    /\ fn = "none"
    /\ kind = "dimension"
    /\ wire' = convertDimensionRange(arg)
    /\ fn' = "convertDimensionRange"
    /\ UNCHANGED <<kind, arg, out>>
    /\ UNCHANGED gwVars

CallConvertFromWasmDimensionRange ==
    /\ \/ fn = "none" /\ kind = "wireDimension"
       \/ fn = "convertDimensionRange"
    /\ out' = convertFromWasmDimensionRange(wire)
    /\ fn' = "convertFromWasmDimensionRange"
    /\ UNCHANGED <<kind, arg, wire>>
    /\ UNCHANGED gwVars

CallConvertSpaceTimeId ==
    /\ fn = "none"
    /\ kind = "id"
    /\ wire' = convertSpaceTimeId(arg)
    /\ fn' = "convertSpaceTimeId"
    /\ UNCHANGED <<kind, arg, out>>
    /\ UNCHANGED gwVars

CallConvertFromWasmSpaceTimeId ==
    /\ \/ fn = "none" /\ kind = "wireId"
       \/ fn = "convertSpaceTimeId"
    /\ out' = convertFromWasmSpaceTimeId(wire)
    /\ fn' = "convertFromWasmSpaceTimeId"
    /\ UNCHANGED <<kind, arg, wire>>
    /\ UNCHANGED gwVars

\* StaticMethods.range.and / or / xor / not: the caller wraps the range it
\* holds, alone or beside another range, in a combinator
BuildCombinator ==
    /\ fn = "none"
    /\ kind \in {"range", "id"}
    /\ kind = "id" => arg \in IdLeaves \cup UnknownRanges
    /\ RangeDepth(arg) < MaxDepth
    /\ \E tag \in CombinatorTags :
       \E ranges \in {<<arg>>} \cup {<<arg, s>> : s \in Siblings}
                     \cup {<<s, arg>> : s \in Siblings} :
           arg' = rangeCombinator(tag, ranges)
    /\ kind' = "range"
    /\ UNCHANGED <<fn, wire, out>>
    /\ UNCHANGED gwVars

\* an id is a range: convertRange takes whatever range or id the caller holds
CallConvertRange ==
    /\ fn = "none"
    /\ kind \in {"range", "id", "mixedRange"}
    /\ kind = "id" => arg \in IdLeaves \cup UnknownRanges
    /\ wire' = convertRange(arg)
    /\ fn' = "convertRange"
    /\ UNCHANGED <<kind, arg, out>>
    /\ UNCHANGED gwVars

CallConvertBooleanFilter ==
    /\ fn = "none"
    /\ kind = "booleanFilter"
    /\ wire' = convertBooleanFilter(arg)
    /\ fn' = "convertBooleanFilter"
    /\ UNCHANGED <<kind, arg, out>>
    /\ UNCHANGED gwVars

CallConvertIntFilter ==
    /\ fn = "none"
    /\ kind = "intFilter"
    /\ wire' = convertIntFilter(arg)
    /\ fn' = "convertIntFilter"
    /\ UNCHANGED <<kind, arg, out>>
    /\ UNCHANGED gwVars

CallConvertTextFilter ==
    /\ fn = "none"
    /\ kind = "textFilter"
    /\ wire' = convertTextFilter(arg)
    /\ fn' = "convertTextFilter"
    /\ UNCHANGED <<kind, arg, out>>
    /\ UNCHANGED gwVars

CallIsVersionInRange ==
    /\ fn = "none"
    /\ kind = "version"
    /\ out' = Bool(isVersionInRange(arg.a[1].s, arg.a[2].s, arg.a[3].s))
    /\ fn' = "isVersionInRange"
    /\ UNCHANGED <<kind, arg, wire>>
    /\ UNCHANGED gwVars

(***************************************************************************)
(* The gateway: Kasane.init builds it, and then the caller applies public  *)
(* operations to it, the engine answering each request with some text.     *)
(***************************************************************************)
\* Applied with an operation that threw switching the debug flag off
AppliedErrorClearsDebug(name, params, res, r) ==
    /\ fn' = name
    /\ arg' = params
    /\ reply' = IF r.sent = <<>> THEN Undef ELSE res
    /\ sent' = r.sent
    /\ out' = r.out
    /\ log' = r.log
    /\ firstSent' = IF firstSent = Undef /\ r.sent # <<>> THEN r.sent[1] ELSE firstSent
    /\ debug' = IF IsThrow(r.out) THEN FALSE ELSE debug
    /\ UNCHANGED <<kind, wire, prev>>

\* the state an operation leaves behind; the engine answers only when asked
Applied(name, params, res, r) ==
    /\ fn' = name
    /\ arg' = params
    /\ reply' = IF r.sent = <<>> THEN Undef ELSE res
    /\ sent' = r.sent
    /\ out' = r.out
    /\ log' = r.log
    /\ firstSent' = IF firstSent = Undef /\ r.sent # <<>> THEN r.sent[1] ELSE firstSent
    /\ UNCHANGED <<kind, wire, debug, prev>>

CallInit ==
    /\ gw = "loaded"
    /\ \E res \in Replies : Applied("init", Undef, res, init(res, debug))
    /\ gw' = "ready"

\* the caller takes what the operation returned or threw, and the gateway is
\* ready for the next operation
Return ==
    /\ kind = "gateway"
    /\ fn # "none"
    /\ fn' = "none"
    /\ arg' = Undef
    /\ out' = Undef
    /\ sent' = <<>>
    /\ reply' = Undef
    /\ log' = <<>>
    /\ prev' = IF IsThrow(out) THEN "threw" ELSE "returned"
    /\ UNCHANGED <<kind, wire, gw, debug, firstSent>>

CallAddSpace ==
    /\ gw = "ready"
    /\ fn = "none"
    /\ \E params \in SpaceParams, res \in Replies :
           Applied("addSpace", params, res, addSpace(params, res, debug))
    /\ UNCHANGED gw

CallDeleteSpace ==
    /\ gw = "ready"
    /\ fn = "none"
    /\ \E params \in SpaceParams, res \in Replies :
           Applied("deleteSpace", params, res, deleteSpace(params, res, debug))
    /\ UNCHANGED gw

CallShowSpaces ==
    /\ gw = "ready"
    /\ fn = "none"
    /\ \E res \in Replies :
           Applied("showSpaces", Undef, res, showSpaces(Undef, res, debug))
    /\ UNCHANGED gw

CallAddKey ==
    /\ gw = "ready"
    /\ fn = "none"
    /\ \E params \in AddKeyParams, res \in Replies :
           Applied("addKey", params, res, addKey(params, res, debug))
    /\ UNCHANGED gw

CallDeleteKey ==
    /\ gw = "ready"
    /\ fn = "none"
    /\ \E params \in KeyParams, res \in Replies :
           Applied("deleteKey", params, res, deleteKey(params, res, debug))
    /\ UNCHANGED gw

CallShowKeys ==
    /\ gw = "ready"
    /\ fn = "none"
    /\ \E params \in SpaceParams, res \in Replies :
           Applied("showKeys", params, res, showKeys(params, res, debug))
    /\ UNCHANGED gw

CallPutValue ==
    /\ gw = "ready"
    /\ fn = "none"
    /\ \E params \in PutValueParams, res \in Replies :
           Applied("putValue", params, res, putValue(params, res, debug))
    /\ UNCHANGED gw

CallSetValue ==
    /\ gw = "ready"
    /\ fn = "none"
    /\ \E params \in PutValueParams, res \in Replies :
           Applied("setValue", params, res, setValue(params, res, debug))
    /\ UNCHANGED gw

CallGetValue ==
    /\ gw = "ready"
    /\ fn = "none"
    /\ \E params \in GetValueParams, res \in Replies :
           Applied("getValue", params, res, getValue(params, res, debug))
    /\ UNCHANGED gw

CallDeleteValue ==
    /\ gw = "ready"
    /\ fn = "none"
    /\ \E params \in DeleteValueParams, res \in Replies :
           Applied("deleteValue", params, res, deleteValue(params, res, debug))
    /\ UNCHANGED gw

CallSelect ==
    /\ gw = "ready"
    /\ fn = "none"
    /\ \E params \in SelectParams, res \in Replies :
           Applied("select", params, res, select(params, res, debug))
    /\ UNCHANGED gw

CallGetVersion ==
    /\ gw = "ready"
    /\ fn = "none"
    /\ \E res \in Replies :
           Applied("getVersion", Undef, res, getVersion(Undef, res, debug))
    /\ UNCHANGED gw


CallSpaceHandle ==
    /\ gw = "ready"
    /\ fn = "none"
    /\ \E name \in {"showKeys", "addKey", "deleteKey"}, space \in Spaces, key \in Keys,
          res \in HandleReplies :
           LET params == IF name = "showKeys" THEN Undef
                         ELSE Obj([key |-> key]
                                  @@ Member("type", IF name = "addKey" THEN Str("INT")
                                                    ELSE Absent))
           IN  Applied("space." \o name, Arr(<<space, params>>), res,
                       spaceHandle(name, space, params, res, debug))
    /\ UNCHANGED gw

CallKeyHandle ==
    /\ gw = "ready"
    /\ fn = "none"
    /\ \E name \in {"getValue", "setValue", "putValue", "deleteValue"},
          space \in Spaces, key \in Keys, range \in GatewayRanges,
          value \in GatewayValues, options \in GatewayOptions, res \in HandleReplies :
           LET params == Obj([range |-> range]
                             @@ Member("value", IF name \in {"setValue", "putValue"}
                                                THEN value ELSE Absent)
                             @@ Member("options", IF name = "getValue"
                                                  THEN options ELSE Absent))
           IN  Applied("space.key." \o name, Arr(<<space, key, params>>), res,
                       keyHandle(name, space, key, params, res, debug))
    /\ UNCHANGED gw

Next ==
    \/ BuildCombinator
    \/ CallConvertRange
    \/ CallConvertBooleanFilter
    \/ CallConvertIntFilter
    \/ CallConvertTextFilter
    \/ CallConvertDimensionRange
    \/ CallConvertFromWasmDimensionRange
    \/ CallConvertSpaceTimeId
    \/ CallConvertFromWasmSpaceTimeId
    \/ CallIsVersionInRange
    \/ CallInit
    \/ Return
    \/ CallAddSpace
    \/ CallDeleteSpace
    \/ CallShowSpaces
    \/ CallAddKey
    \/ CallDeleteKey
    \/ CallShowKeys
    \/ CallPutValue
    \/ CallSetValue
    \/ CallGetValue
    \/ CallDeleteValue
    \/ CallSelect
    \/ CallGetVersion
    \/ CallSpaceHandle
    \/ CallKeyHandle

Spec == Init /\ [][Next]_vars

(***************************************************************************)
(* Properties of the dimension range codec.                                *)
(***************************************************************************)
Dims == {"f", "x", "y", "t"}
EncodedDimension == kind = "dimension" /\ fn = "convertDimensionRange"
DecodedDimension == fn = "convertFromWasmDimensionRange"

\* C1: for each of the five DimensionRange shapes, decoding the encoding of x
\* gives back x.
C1_RoundTrip ==
    (DecodedDimension /\ kind = "dimension" /\ IsDimensionRange(arg)) => out = arg
C1_Witness ==
    /\ DecodedDimension /\ kind = "dimension"
    /\ arg = Arr(<<Dash, Num(1)>>)
    /\ wire = Obj([BeforeUnLimitRange |-> Num(1)])
    /\ out = arg

\* C2: a valid compact array encodes to the variant its shape fixes, the two
\* ends of an interval passed through in the order given (no ordering, no
\* lo <= hi check).
C2_ParsingRules ==
    (EncodedDimension /\ IsDimensionRange(arg)) =>
        LET a == arg.a
        IN  /\ (Len(a) = 1 /\ a[1] = Dash) => wire = AnyTag
            /\ (Len(a) = 1 /\ a[1] # Dash) => wire = Obj([Single |-> a[1]])
            /\ (Len(a) = 2 /\ a[1] = Dash) =>
                   wire = Obj([BeforeUnLimitRange |-> a[2]])
            /\ (Len(a) = 2 /\ a[1] # Dash /\ a[2] = Dash) =>
                   wire = Obj([AfterUnLimitRange |-> a[1]])
            /\ (Len(a) = 2 /\ a[1] # Dash /\ a[2] # Dash) =>
                   wire = Obj([LimitRange |-> Arr(<<a[1], a[2]>>)])
C2_Witness ==
    /\ EncodedDimension
    /\ arg = Arr(<<Num(MaxNum), Num(0)>>)
    /\ wire = Obj([LimitRange |-> Arr(<<Num(MaxNum), Num(0)>>)])

\* C3: parsing an invalid compact array (empty, three or more elements, or
\* ["-","-"]) raises an error and produces no wire value.
C3_InvalidArrayRaises ==
    (EncodedDimension /\ ~IsDimensionRange(arg)) => IsThrow(wire)

\* C4 as claimed: decoding a wire value of none of the five known shapes
\* fails with an error.
C4_UnknownShapeFails ==
    (DecodedDimension /\ ~IsKnownWireDim(wire)) => IsThrow(out)
\* C4 as amended: decoding a wire value of none of the five known shapes
\* never fails; it yields ["-"] (Any), alone and as a field of a wire id.
C4_UnknownShapeIsAny ==
    /\ (DecodedDimension /\ ~IsKnownWireDim(wire)) => out = Arr(<<Dash>>)
    /\ (fn = "convertFromWasmSpaceTimeId") =>
           /\ ~IsThrow(out)
           /\ \A d \in Dims :
                  ~IsKnownWireDim(Get(wire, d)) => Get(out, d) = Arr(<<Dash>>)
C4_Witness ==
    /\ fn = "convertFromWasmSpaceTimeId" /\ kind = "wireId"
    /\ Get(wire, "x") = Str("All")
    /\ Get(out, "x") = Arr(<<Dash>>)
    /\ Get(wire, "y") = Obj([Single |-> Num(1)])
    /\ Get(out, "y") = Arr(<<Num(1)>>)

(***************************************************************************)
(* Properties of the space-time id codec.                                  *)
(***************************************************************************)
EncodedId == kind = "id" /\ fn \in {"convertSpaceTimeId", "convertFromWasmSpaceTimeId"}

\* C5: an omitted i encodes as 0, each omitted dimension as "Any"
\* independently of the others, each dimension supplied as an array goes
\* through convertDimensionRange; an id with only z and i decodes, after
\* encoding, to the same z and i with f, x, y, t all ["-"].
C5_IdDefaults ==
    /\ EncodedId =>
           /\ ~In("i", arg) => Get(wire, "i") = Num(0)
           /\ \A d \in Dims :
                  /\ ~In(d, arg) => Get(wire, d) = AnyTag
                  /\ (In(d, arg) /\ IsArray(Get(arg, d))) =>
                         Get(wire, d) = convertDimensionRange(Get(arg, d))
    /\ (EncodedId /\ fn = "convertFromWasmSpaceTimeId" /\ DOMAIN arg.o = {"z", "i"}) =>
           out = Obj([z |-> arg.o.z, i |-> arg.o.i,
                      f |-> Arr(<<Dash>>), x |-> Arr(<<Dash>>),
                      y |-> Arr(<<Dash>>), t |-> Arr(<<Dash>>)])
C5_Witness ==
    /\ EncodedId /\ fn = "convertFromWasmSpaceTimeId"
    /\ arg = Obj([z |-> Num(MaxNum), i |-> Num(0)])
    /\ out = Obj([z |-> Num(MaxNum), i |-> Num(0),
                  f |-> Arr(<<Dash>>), x |-> Arr(<<Dash>>),
                  y |-> Arr(<<Dash>>), t |-> Arr(<<Dash>>)])

\* C6: encoding an id whose z is absent raises an error, by
\* convertSpaceTimeId and by convertRange alike; no wire id without z is
\* produced.
C6_AbsentZRaises ==
    (fn \in {"convertSpaceTimeId", "convertRange"} /\ IsObject(arg)
        /\ DOMAIN arg.o \subseteq {"z", "i", "f", "x", "y", "t"} /\ ~In("z", arg))
        => IsThrow(wire)

(***************************************************************************)
(* Properties of the range expression encoder.                             *)
(***************************************************************************)
EncodedRange == fn = "convertRange"

\* a tree of ids (numeric z) and AND/OR/XOR/NOT combinators only
RECURSIVE IsIdTree(_)
IsIdTree(range) ==
    /\ IsObject(range)
    /\ \/ In("z", range) /\ IsNumber(range.o.z) /\ DOMAIN range.o \cap CombinatorTags = {}
       \/ \E tag \in CombinatorTags :
              /\ DOMAIN range.o = {tag}
              /\ IsArray(range.o[tag])
              /\ \A j \in 1..Len(range.o[tag].a) : IsIdTree(range.o[tag].a[j])

\* the wire tree w has the shape of the id tree range
RECURSIVE Mirrors(_, _)
Mirrors(range, w) ==
    /\ IsObject(w)
    /\ IF In("z", range)
       THEN w = Obj([SpaceTimeIdSet |-> Arr(<<convertSpaceTimeId(range)>>)])
       ELSE LET tag == CHOOSE tg \in CombinatorTags : In(tg, range)
                kids == range.o[tag].a
            IN  /\ DOMAIN w.o = {"Prefix"}
                /\ IsObject(w.o.Prefix)
                /\ DOMAIN w.o.Prefix.o = {tag}
                /\ IsArray(w.o.Prefix.o[tag])
                /\ Len(w.o.Prefix.o[tag].a) = Len(kids)
                /\ \A j \in 1..Len(kids) : Mirrors(kids[j], w.o.Prefix.o[tag].a[j])

\* C7: for a tree of ids and combinators, convertRange returns a wire tree of
\* the same shape: the same tag at each combinator, as many children, in the
\* same order, and {SpaceTimeIdSet: [encoded id]} at each leaf.
C7_TreeMirrored == (EncodedRange /\ IsIdTree(arg)) => Mirrors(arg, wire)
C7_Witness ==
    /\ EncodedRange
    /\ arg = rangeCombinator("AND", <<rangeCombinator("OR", <<IdA, IdB>>),
                                      rangeCombinator("NOT", <<IdC>>)>>)
    /\ Len(wire.o.Prefix.o.AND.a) = 2
    /\ wire.o.Prefix.o.AND.a[1].o.Prefix.o.OR.a[2]
           = Obj([SpaceTimeIdSet |-> Arr(<<convertSpaceTimeId(IdB)>>)])
    /\ DOMAIN wire.o.Prefix.o.AND.a[2].o.Prefix.o = {"NOT"}

\* an object of no range shape, as convertRange tells the shapes apart
IsUnknownRange(range) ==
    /\ IsObject(range)
    /\ ~(In("z", range) /\ IsNumber(range.o.z))
    /\ DOMAIN range.o \cap (CombinatorTags \cup {"Filter", "HasValue"}) = {}
\* the range is, or holds below its combinators, an object of no range shape
RECURSIVE HasUnknownRange(_)
HasUnknownRange(range) ==
    \/ IsUnknownRange(range)
    \/ /\ IsObject(range)
       /\ ~(In("z", range) /\ IsNumber(range.o.z))
       /\ \E tag \in CombinatorTags :
              /\ In(tag, range)
              /\ \E j \in 1..Len(range.o[tag].a) : HasUnknownRange(range.o[tag].a[j])

\* C8: convertRange raises an error on an object of no range shape, and also
\* when such an object lies anywhere below a combinator: then no wire tree,
\* whole or partial, is returned.
C8_UnknownShapeRaises ==
    /\ (EncodedRange /\ IsUnknownRange(arg)) => wire = Throw("Unknown range type")
    /\ (EncodedRange /\ HasUnknownRange(arg)) => IsThrow(wire)
C8_Witness ==
    /\ EncodedRange
    /\ arg = rangeCombinator("AND", <<rangeCombinator("OR", <<IdB, EmptyObj>>)>>)
    /\ wire = Throw("Unknown range type")

\* a Filter leaf whose filter is omitted (no key, or the key left undefined)
IsFilterWithoutFilter(range) ==
    /\ IsObject(range)
    /\ DOMAIN range.o = {"Filter"}
    /\ Get(range.o.Filter, "filter") = Undef
HasValueOf(range) ==
    rangeHasValue(Get(range.o.Filter, "space"), Get(range.o.Filter, "key"))

\* C9 as claimed: a Filter leaf with no filter has the wire form of
\* HasValue{space, key}.
C9_SameWireAsHasValue ==
    (EncodedRange /\ IsFilterWithoutFilter(arg)) => wire = convertRange(HasValueOf(arg))
\* C9 as amended: a Filter leaf with no filter encodes as
\* {Function: {FilterValue: {spacename, keyname}}} with no filter key: the
\* payload of the HasValue wire form, under the tag FilterValue.
C9_FilterValueWithoutFilter ==
    (EncodedRange /\ IsFilterWithoutFilter(arg)) =>
        /\ IsObject(wire) /\ DOMAIN wire.o = {"Function"}
        /\ DOMAIN wire.o.Function.o = {"FilterValue"}
        /\ DOMAIN wire.o.Function.o.FilterValue.o = {"spacename", "keyname"}
        /\ wire.o.Function.o.FilterValue
               = convertRange(HasValueOf(arg)).o.Function.o.HasValue
C9_Witness ==
    /\ EncodedRange
    /\ arg = rangeFilter(Str("s2"), Str("k1"), Undef)
    /\ wire = Obj([Function |-> Obj([FilterValue |->
                   Obj([spacename |-> Str("s2"), keyname |-> Str("k1")])])])

(***************************************************************************)
(* Properties of the filter encoders.                                      *)
(***************************************************************************)
\* the documented wire tag of each predicate, per value kind
BooleanTag == [isTrue |-> "IsTrue", isFalse |-> "IsFalse", equals |-> "Equals",
               notEquals |-> "NotEquals"]
IntTag == [equal |-> "Equal", notEqual |-> "NotEqual", greaterThan |-> "GreaterThan",
           greaterEqual |-> "GreaterEqual", lessThan |-> "LessThan",
           lessEqual |-> "LessEqual", between |-> "Between", in |-> "In",
           notIn |-> "NotIn"]
TextTag == [equal |-> "Equal", notEqual |-> "NotEqual", contains |-> "Contains",
            notContains |-> "NotContains", startsWith |-> "StartsWith",
            endsWith |-> "EndsWith", caseInsensitiveEqual |-> "CaseInsensitiveEqual"]
\* the tag a wire filter carries
TagOf(w) == IF w.t = "string" THEN w.s
            ELSE IF IsObject(w) /\ Cardinality(DOMAIN w.o) = 1
            THEN CHOOSE tg \in DOMAIN w.o : TRUE
            ELSE "none"
SinglePredicate(keys) == Cardinality(DOMAIN arg.o) = 1 /\ DOMAIN arg.o \subseteq keys
ThePredicate == CHOOSE k \in DOMAIN arg.o : TRUE

\* C10: each single-predicate filter encodes to its documented wire tag with
\* the payload unchanged (isTrue and isFalse to the bare tag), and no other
\* predicate of the same kind encodes to that tag.
C10_FilterTags ==
    /\ (fn = "convertBooleanFilter" /\ SinglePredicate(BooleanKeys)) =>
           LET k == ThePredicate
           IN  /\ wire = IF k \in {"isTrue", "isFalse"} THEN Str(BooleanTag[k])
                         ELSE Obj(BooleanTag[k] :> arg.o[k])
               /\ \A k2 \in BooleanKeys \ {k} :
                      TagOf(convertBooleanFilter(Obj(k2 :> arg.o[k]))) # TagOf(wire)
    /\ (fn = "convertIntFilter" /\ SinglePredicate(IntKeys)) =>
           LET k == ThePredicate
           IN  /\ wire = Obj(IntTag[k] :> arg.o[k])
               /\ \A k2 \in IntKeys \ {k} :
                      TagOf(convertIntFilter(Obj(k2 :> arg.o[k]))) # TagOf(wire)
    /\ (fn = "convertTextFilter" /\ SinglePredicate(TextKeys)) =>
           LET k == ThePredicate
           IN  /\ wire = Obj(TextTag[k] :> arg.o[k])
               /\ \A k2 \in TextKeys \ {k} :
                      TagOf(convertTextFilter(Obj(k2 :> arg.o[k]))) # TagOf(wire)
C10_Witness ==
    /\ fn = "convertTextFilter"
    /\ arg = filterOf("notContains", Str("Ab"))
    /\ arg \in BuiltTextFilters
    /\ wire = Obj([NotContains |-> Str("Ab")])

\* C11: a per-kind filter encoder handed a filter object that carries none of
\* its kind's predicate keys (an empty object, or only an unknown key) raises
\* its unknown-filter error and returns no wire value.
C11_UnknownFilterRaises ==
    /\ (fn = "convertBooleanFilter" /\ IsObject(arg)
            /\ DOMAIN arg.o \cap BooleanKeys = {}) =>
           wire = Throw("Unknown boolean filter")
    /\ (fn = "convertIntFilter" /\ IsObject(arg)
            /\ DOMAIN arg.o \cap IntKeys = {}) =>
           wire = Throw("Unknown int filter")
    /\ (fn = "convertTextFilter" /\ IsObject(arg)
            /\ DOMAIN arg.o \cap TextKeys = {}) =>
           wire = Throw("Unknown text filter")
C11_Witness ==
    /\ fn = "convertIntFilter"
    /\ arg = Obj([bogus |-> Num(1)])
    /\ wire = Throw("Unknown int filter")

(***************************************************************************)
(* The gateway's claims.                                                    *)
(***************************************************************************)
PublicOps ==
    {"addSpace", "deleteSpace", "showSpaces", "addKey", "deleteKey", "showKeys",
     "putValue", "setValue", "getValue", "deleteValue", "select", "getVersion"}
VoidOps ==
    {"addSpace", "deleteSpace", "addKey", "deleteKey", "putValue", "setValue",
     "deleteValue"}
\* Kasane's public methods, each handing its parameters to its implementation
Operation(name, params, res, dbg) ==
    CASE name = "addSpace" -> addSpace(params, res, dbg)
      [] name = "deleteSpace" -> deleteSpace(params, res, dbg)
      [] name = "showSpaces" -> showSpaces(params, res, dbg)
      [] name = "addKey" -> addKey(params, res, dbg)
      [] name = "deleteKey" -> deleteKey(params, res, dbg)
      [] name = "showKeys" -> showKeys(params, res, dbg)
      [] name = "putValue" -> putValue(params, res, dbg)
      [] name = "setValue" -> setValue(params, res, dbg)
      [] name = "getValue" -> getValue(params, res, dbg)
      [] name = "deleteValue" -> deleteValue(params, res, dbg)
      [] name = "select" -> select(params, res, dbg)
      [] name = "getVersion" -> getVersion(params, res, dbg)

\* the engine was asked and answered with a JSON list of at least one element
RepliedList ==
    /\ sent # <<>>
    /\ "json" \in DOMAIN reply
    /\ IsArray(reply.json)
    /\ Len(reply.json.a) >= 1
ReplyHead == reply.json.a[1]
RepliedError == RepliedList /\ IsObject(ReplyHead) /\ In("Error", ReplyHead)
RepliedSuccess ==
    RepliedList /\ IsObject(ReplyHead) /\ DOMAIN ReplyHead.o = {"Success"}
SuccessPayload == ReplyHead.o.Success

\* C12: when the first element of the engine's reply is {Error: msg}, every
\* public operation throws an error whose message is exactly msg (the empty
\* message included) and returns no value.
C12_ErrorReachesCaller ==
    (fn \in PublicOps /\ RepliedError) => out = Throw(ReplyHead.o.Error.s)
C12_Witness ==
    /\ fn = "getValue"
    /\ RepliedError
    /\ ReplyHead = Obj([Error |-> Str("")])
    /\ out = Throw("")

\* C13: when the first element of the reply is {Success: out}, executeCommand
\* returns that payload unmodified (the bare "Success" included) and throws
\* nothing: an operation that returns nothing completes, and an operation
\* that reads a variant of the payload returns that variant's content.
C13_SuccessReturned ==
    (fn \in PublicOps /\ RepliedSuccess) =>
        /\ executeCommand(JSONParse(sent[1]).o.command.a[1], reply, debug).out
               = SuccessPayload
        /\ fn \in VoidOps => out = Undef
        /\ (fn = "showSpaces" /\ IsObject(SuccessPayload)
                /\ In("SpaceNames", SuccessPayload)) =>
               out = SuccessPayload.o.SpaceNames
        /\ (fn = "showKeys" /\ IsObject(SuccessPayload)
                /\ In("KeyNames", SuccessPayload)) =>
               out = SuccessPayload.o.KeyNames
        /\ (fn = "getVersion" /\ IsObject(SuccessPayload)
                /\ In("Version", SuccessPayload)) =>
               out = SuccessPayload.o.Version
C13_Witness ==
    /\ fn = "addSpace"
    /\ RepliedSuccess
    /\ SuccessPayload = Str("Success")
    /\ out = Undef

\* C14: a public operation hands the engine at most one request; the request
\* is an envelope {command: [c]} holding exactly one command; and the
\* operation's outcome is the one it would have had if the reply had held its
\* first element alone.
C14_OneCallOneCommand ==
    fn \in PublicOps =>
        /\ Len(sent) <= 1
        /\ sent # <<>> =>
               LET envelope == JSONParse(sent[1])
               IN  /\ IsObject(envelope)
                   /\ DOMAIN envelope.o = {"command"}
                   /\ IsArray(envelope.o.command)
                   /\ Len(envelope.o.command.a) = 1
        /\ RepliedList =>
               out = Operation(fn, arg, JSONStringify(Arr(<<ReplyHead>>)), debug).out
C14_Witness ==
    /\ fn = "showSpaces"
    /\ Len(sent) = 1
    /\ RepliedList
    /\ Len(reply.json.a) = 2
    /\ reply.json.a[2] = Obj([Error |-> Str("key not found")])
    /\ out = Arr(<<>>)

\* the warnings among the lines written to the console
Warnings == SelectSeq(log, LAMBDA line : line.level = "warn")
\* the engine answered the Version request with the version string v
RepliedVersion(v) ==
    RepliedSuccess /\ SuccessPayload = Obj([Version |-> Str(v)])

\* C15: once the engine module is loaded, Kasane.init returns the gateway
\* whatever the engine answers to the Version request; a version inside the
\* supported range leaves the console without a warning, and a version
\* outside it, an Error reply, a Success payload that is no Version and a
\* reply that is not JSON each leave exactly one warning and throw nothing.
C15_InitAlwaysCompletes ==
    fn = "init" =>
        /\ out = KasaneInstance
        /\ gw = "ready"
        /\ Len(Warnings) <= 1
        /\ RepliedVersion("0.0.1") => Warnings = <<>>
        /\ RepliedVersion("0.1.0") => Warnings = <<CompatibilityWarning>>
        /\ (\/ RepliedError
            \/ RepliedSuccess /\ ~(IsObject(SuccessPayload)
                                     /\ In("Version", SuccessPayload))
            \/ reply = NotJSON) =>
               Warnings = <<CouldNotVerifyWarning>>
C15_Witness ==
    /\ fn = "init"
    /\ reply = NotJSON
    /\ out = KasaneInstance
    /\ Warnings = <<CouldNotVerifyWarning>>

(***************************************************************************)
(* The version range.                                                       *)
(***************************************************************************)
\* the version string, the lower and the upper end isVersionInRange was
\* asked about
AskedVersion == arg.a[1].s
AskedMin == arg.a[2].s
AskedMax == arg.a[3].s
\* every part of the version string is a decimal integer
IsDottedIntegers(v) == \A i \in 1..Len(split[v]) : parseInt[split[v][i]] # NaN
\* a dotted-integer version read as one number: its components, zero-filled
\* to MaxLen + 2 places, as the digits of a base-10 numeral
RECURSIVE Power10(_)
Power10(n) == IF n = 0 THEN 1 ELSE 10 * Power10(n - 1)
Weight(v) ==
    LET parts == split[v]
        place(i) == IF i <= Len(parts) THEN parseInt[parts[i]].n ELSE 0
        RECURSIVE Sum(_)
        Sum(i) == IF i > MaxLen + 2 THEN 0
                  ELSE place(i) * Power10(MaxLen + 2 - i) + Sum(i + 1)
    IN  Sum(1)

\* C16: for dotted-integer versions isVersionInRange(v, min, max) is true
\* exactly when min <= v <= max in the component-wise integer order, both
\* ends included; with min = max = "0.0.1", "0.0.1" is in range and "0.1.0"
\* and "0.0.0" are not; and init writes the version-compatibility warning
\* exactly when the engine's version is not in the supported range.
C16_InRangeInclusive ==
    /\ (fn = "isVersionInRange" /\ IsDottedIntegers(AskedVersion)
            /\ IsDottedIntegers(AskedMin) /\ IsDottedIntegers(AskedMax)) =>
           out = Bool(/\ Weight(AskedMin) <= Weight(AskedVersion)
                      /\ Weight(AskedVersion) <= Weight(AskedMax))
    /\ (fn = "isVersionInRange" /\ AskedMin = "0.0.1" /\ AskedMax = "0.0.1") =>
           /\ AskedVersion = "0.0.1" => out = Bool(TRUE)
           /\ AskedVersion \in {"0.1.0", "0.0.0"} => out = Bool(FALSE)
    /\ fn = "init" =>
           \A v \in EngineVersions :
               (RepliedVersion(v) /\ IsDottedIntegers(v)) =>
                   ((CompatibilityWarning \in {log[i] : i \in 1..Len(log)})
                       <=> ~(/\ Weight(SUPPORTED_WASM_VERSION_RANGE.min) <= Weight(v)
                             /\ Weight(v) <= Weight(SUPPORTED_WASM_VERSION_RANGE.max)))
C16_Witness ==
    /\ fn = "isVersionInRange"
    /\ AskedVersion = "0.1.0"
    /\ AskedMin = "0.0.1"
    /\ AskedMax = "0.0.1"
    /\ out = Bool(FALSE)

\* a parsed version with trailing zeros up to n components
Pad(v, n) == [i \in 1..n |-> IF i <= Len(v) THEN v[i] ELSE 0]
LongerOf(v1, v2) == IF Len(v1) > Len(v2) THEN Len(v1) ELSE Len(v2)

\* C17: a missing component counts as 0: comparing the version with either
\* end of the range gives what comparing them gives after the shorter is
\* padded with trailing zeros, so "0.0.1.5" is above "0.0.1" by its fourth
\* component alone; and appending ".0" to the version does not change
\* whether it is in range.
C17_ZeroFill ==
    fn = "isVersionInRange" =>
        LET v == parseVersion(AskedVersion)
            lo == parseVersion(AskedMin)
            hi == parseVersion(AskedMax)
        IN  /\ compareVersions(v, lo)
                   = compareVersions(Pad(v, LongerOf(v, lo)), Pad(lo, LongerOf(v, lo)))
            /\ compareVersions(v, hi)
                   = compareVersions(Pad(v, LongerOf(v, hi)), Pad(hi, LongerOf(v, hi)))
            /\ (AskedVersion = "0.0.1.5" /\ AskedMin = "0.0.1") =>
                   /\ SubSeq(v, 1, 3) = lo
                   /\ compareVersions(v, lo) = 5
            /\ (AskedVersion \o ".0") \in VersionStrings =>
                   out = Bool(isVersionInRange(AskedVersion \o ".0", AskedMin, AskedMax))
C17_Witness ==
    /\ fn = "isVersionInRange"
    /\ AskedVersion = "0.0.1.5"
    /\ AskedMin = "0.0.1"
    /\ AskedMax = "0.0.1"
    /\ out = Bool(FALSE)

(***************************************************************************)
(* The records getValue and select decode.                                  *)
(***************************************************************************)
\* the variant of the payload each of the two operations reads
ListTag == IF fn = "getValue" THEN "GetValue" ELSE "SelectValue"
\* the engine answered getValue or select with a list of records
RepliedRecords ==
    /\ fn \in {"getValue", "select"}
    /\ RepliedSuccess
    /\ IsObject(SuccessPayload)
    /\ In(ListTag, SuccessPayload)
WireRecords == SuccessPayload.o[ListTag].a
\* the member is in the wire record and is not null
Present(record, member) == In(member, record) /\ record.o[member] # Null
WellShaped(vertex) ==
    /\ Len(vertex.a) = 8
    /\ \A i \in 1..Len(vertex.a) : Len(vertex.a[i].a) = 3

C19_ValueUnwrapped ==
    (RepliedRecords /\ fn = "getValue" /\ IsArray(out)) =>
        \A i \in 1..Len(out.a) :
            LET wrapper == WireRecords[i].o.value
            IN  \E tag \in {"INT", "TEXT", "BOOLEAN"} :
                    /\ DOMAIN wrapper.o = {tag}
                    /\ out.a[i].o.value = wrapper.o[tag]

OptionalMembers == {"id_string", "vertex", "center"}

Populated(keys) == DOMAIN arg.o \cap keys
\* the wire filter names the predicate's tag
Represents(tag) == wire = Str(tag) \/ (IsObject(wire) /\ tag \in DOMAIN wire.o)

\* C25: for a filter object carrying more than one predicate key of its
\* kind, the encoder either fails or emits a wire filter in which every
\* populated predicate is represented; it never keeps one and drops another.
C25_NoPredicateDropped ==
    /\ (fn = "convertBooleanFilter" /\ IsObject(arg)
            /\ Cardinality(Populated(BooleanKeys)) > 1) =>
           (IsThrow(wire) \/ \A k \in Populated(BooleanKeys) : Represents(BooleanTag[k]))
    /\ (fn = "convertIntFilter" /\ IsObject(arg)
            /\ Cardinality(Populated(IntKeys)) > 1) =>
           (IsThrow(wire) \/ \A k \in Populated(IntKeys) : Represents(IntTag[k]))
    /\ (fn = "convertTextFilter" /\ IsObject(arg)
            /\ Cardinality(Populated(TextKeys)) > 1) =>
           (IsThrow(wire) \/ \A k \in Populated(TextKeys) : Represents(TextTag[k]))

\* C26: encoding a Filter leaf whose filter is supplied but is an object of
\* none of the kinds boolean, int, text fails; no FilterValue leaf is emitted
\* from which the supplied filter has been left out.
C26_UnknownKindFilterRaises ==
    (/\ fn = "convertRange"
     /\ IsObject(arg)
     /\ DOMAIN arg.o = {"Filter"}
     /\ IsObject(arg.o.Filter)
     /\ IsObject(Get(arg.o.Filter, "filter"))
     /\ DOMAIN arg.o.Filter.o.filter.o \cap {"boolean", "int", "text"} = {}) =>
        IsThrow(wire)

\* C27: an expression carrying two or more of AND/OR/XOR/NOT, or one of them
\* together with a numeric z, a Filter or a HasValue, is rejected by
\* convertRange; it is not encoded from one of its keys with the others
\* ignored.
C27_ExactlyOneCombinator ==
    (/\ fn = "convertRange"
     /\ IsObject(arg)
     /\ \/ Cardinality(DOMAIN arg.o \cap CombinatorTags) >= 2
        \/ /\ DOMAIN arg.o \cap CombinatorTags # {}
           /\ \/ In("z", arg) /\ IsNumber(arg.o.z)
              \/ In("Filter", arg)
              \/ In("HasValue", arg)) =>
        IsThrow(wire)

\* C28: a dimension of an id given as a bare number v is encoded as
\* {Single: v}, the same as the array [v], for every v including 0; it is
\* never replaced by "Any".
C28_BareNumberSingle ==
    (fn = "convertSpaceTimeId" /\ IsObject(arg) /\ IsObject(wire)) =>
        \A d \in Dims :
            (In(d, arg) /\ IsNumber(arg.o[d])) =>
                /\ wire.o[d] = Obj([Single |-> arg.o[d]])
                /\ wire.o[d] = convertDimensionRange(Arr(<<arg.o[d]>>))

(***************************************************************************)
(* Response shapes, the gateway's state, and the scoped handles.            *)
(***************************************************************************)
\* the variant of the payload each reading operation expects
ExpectedVariant ==
    [showSpaces |-> "SpaceNames", showKeys |-> "KeyNames", getValue |-> "GetValue",
     select |-> "SelectValue", getVersion |-> "Version"]

\* C21: when the engine answers Success with a payload that is not the
\* variant the operation expects (the bare "Success", null, or another
\* variant), showSpaces, showKeys, getValue, select and getVersion raise
\* their response-shape error; they return neither data nor undefined.
C21_WrongVariantShapeError ==
    (/\ fn \in DOMAIN ExpectedVariant
     /\ RepliedSuccess
     /\ ~(IsObject(SuccessPayload) /\ In(ExpectedVariant[fn], SuccessPayload))) =>
        out = Throw("Unexpected response format for " \o fn)

\* C22: the gateway becomes ready once, at init, and stays ready; no
\* operation, whether it returns or throws, changes the debug flag; and
\* whatever the operation before it did, an operation sends the request and
\* has the outcome that the operation has on a gateway with that debug flag.
C22_GatewayStateless ==
    [][/\ gw = "ready" => gw' = "ready"
       /\ (gw = "loaded" /\ gw' = "ready") => fn' = "init"
       /\ gw # "none" => debug' = debug
       /\ fn' \in PublicOps =>
              LET fresh == Operation(fn', arg', reply', debug)
              IN  sent' = fresh.sent /\ out' = fresh.out /\ log' = fresh.log]_vars
C22_Witness ==
    /\ prev = "threw"
    /\ gw = "ready"
    /\ debug
    /\ fn = "showSpaces"
    /\ out = Arr(<<Str("s1"), Str("s2")>>)

\* C23: debug mode has no effect on control flow: the gateway sent the
\* request, and the operation returned or threw, what they would have with
\* the debug flag the other way round and the same reply.
C23_DebugNoEffect ==
    fn \in PublicOps =>
        LET other == Operation(fn, arg, reply, ~debug)
        IN  sent = other.sent /\ out = other.out
C23_Witness ==
    /\ fn = "addKey"
    /\ debug
    /\ Len(log) = 2
    /\ RepliedError
    /\ out = Throw("space not found")

VersionRequest == JSONStringify(Obj([command |-> Arr(<<Str("Version")>>)]))

\* C24: Kasane.init sends the Version command exactly once, before the
\* instance is handed to the caller, so Version is the first command the
\* engine receives; afterwards only getVersion sends Version.
C24_VersionOnceAtInit ==
    /\ gw = "loaded" => (firstSent = Undef /\ sent = <<>>)
    /\ fn = "init" => sent = <<VersionRequest>>
    /\ gw = "ready" => firstSent = VersionRequest
    /\ (kind = "gateway" /\ fn \notin {"init", "getVersion"}) =>
           \A i \in 1..Len(sent) : sent[i] # VersionRequest
C24_Witness ==
    /\ fn = "addSpace"
    /\ firstSent = VersionRequest
    /\ Len(sent) = 1
    /\ sent[1] # VersionRequest

\* the operation's range, or its value, cannot be encoded
EncodingFails ==
    \/ IsThrow(convertRange(Get(arg, "range")))
    \/ fn \in {"putValue", "setValue"} /\ IsThrow(wrapValueEntry(Get(arg, "value")))

\* C29: putValue, setValue, getValue, deleteValue and select encode the range
\* and the value before the engine is invoked: when encoding throws, nothing
\* is sent to the engine and the operation throws the encoding error.
C29_EncodeBeforeEngine ==
    (fn \in {"putValue", "setValue", "getValue", "deleteValue", "select"}
        /\ EncodingFails) =>
        /\ sent = <<>>
        /\ reply = Undef
        /\ out \in {Throw("Unknown range type"), Throw("Unsupported ValueEntry type")}
C29_Witness ==
    /\ fn = "putValue"
    /\ Get(arg, "range") = IdA
    /\ Get(arg, "value") = Undef
    /\ sent = <<>>
    /\ out = Throw("Unsupported ValueEntry type")

\* the operation a scoped handle stands for, and the parameters the flat API
\* takes for it: the handle's parameters with its space and key added
KeyHandleOps ==
    {"space.key.getValue", "space.key.setValue", "space.key.putValue",
     "space.key.deleteValue"}
SpaceHandleOps == {"space.showKeys", "space.addKey", "space.deleteKey"}
FlatName ==
    [n \in KeyHandleOps \cup SpaceHandleOps |->
        CASE n = "space.key.getValue" -> "getValue"
          [] n = "space.key.setValue" -> "setValue"
          [] n = "space.key.putValue" -> "putValue"
          [] n = "space.key.deleteValue" -> "deleteValue"
          [] n = "space.showKeys" -> "showKeys"
          [] n = "space.addKey" -> "addKey"
          [] n = "space.deleteKey" -> "deleteKey"]
FlatParams ==
    IF fn \in KeyHandleOps
    THEN Obj(("space" :> arg.a[1]) @@ ("key" :> arg.a[2]) @@ arg.a[3].o)
    ELSE IF arg.a[2] = Undef THEN Obj("space" :> arg.a[1])
    ELSE Obj(("space" :> arg.a[1]) @@ arg.a[2].o)

\* C30: an operation of kasane.space(s) or kasane.space(s).key(k) sends the
\* request, and returns or throws, what the flat operation of the same name
\* does for the same parameters with space s and key k.
C30_ScopedEqualsFlat ==
    fn \in KeyHandleOps \cup SpaceHandleOps =>
        LET flat == Operation(FlatName[fn], FlatParams, reply, debug)
        IN  sent = flat.sent /\ out = flat.out
C30_Witness ==
    /\ fn = "space.key.setValue"
    /\ arg.a[1] = Str("s2")
    /\ Len(sent) = 1
    /\ JSONParse(sent[1]).o.command.a[1].o.SetValue.o.spacename = Str("s2")
    /\ out = Undef
====
